---- MODULE Spec2Model ----
(***************************************************************************)
(* Model of the web client's authentication provider (AuthContext):        *)
(* the pure reducer authReducer, the startup effect initAuth and the        *)
(* asynchronous operations login, register, logout, refreshToken and       *)
(* clearError.  Every await is a point where other operations interleave.  *)
(***************************************************************************)
EXTENDS Integers, Sequences, FiniteSets

(* ---------------- bounds ---------------- *)
MaxCalls == 2        \* operations the user invokes in one behaviour
MaxToken == 3        \* serial of the last token pair the backend issues

(* ---------------- values ---------------- *)
Null == "null"                       \* user: null / error: null
NoToken == 0                         \* localStorage.getItem(...) === null
StaleToken == 1                      \* a pair stored by an earlier session
Users == {"alice", "bob"}
\* the (email, password) pairs the forms submit
Credentials == {<<"alice@x", "pw1">>, <<"bob@x", "pw2">>}
None == "-"                          \* a field that does not apply

MfaMessage == "MFA not implemented in this demo"
LoginFallback == "Login failed"
RegisterFallback == "Registration failed"
NoRefreshMessage == "No refresh token available"

\* values a rejected authService promise can carry: an Error with a
\* message, or a thrown value that is not an Error instance
BackendErrors ==
  { [isError |-> TRUE, message |-> "Unauthorized"],
    [isError |-> FALSE, message |-> ""] }
NoError == [isError |-> FALSE, message |-> None]
MkError(m) == [isError |-> TRUE, message |-> m]

\* error.message read without the instanceof test
FailureMessage_raw(e, fallback) == IF e.isError THEN e.message ELSE Null

\* error instanceof Error ? error.message : fallback
FailureMessage(e, fallback) == IF e.isError THEN e.message ELSE fallback

ErrorMessages ==
  { FailureMessage(e, f) : e \in BackendErrors, f \in {LoginFallback, RegisterFallback} }
    \cup {MfaMessage}

(* ---------------- state ---------------- *)
VARIABLES
  state,        \* AuthState: user, isAuthenticated, isLoading, error
  storage,      \* localStorage: accessToken, refreshToken
  initAuth,     \* the startup effect: its position and how it ended
  calls,        \* login/register/logout/refreshToken invocations in flight
  settled,      \* the invocation whose promise settled last
  invoked,      \* number of invocations so far
  refreshLog,   \* backend: the refresh tokens received, in order
  nextToken,    \* backend: serial of the next token pair
  lastAction,   \* type of the action dispatched last
  nav,          \* the router: the path asked for and the location shown
  dash,         \* the dashboard page: its three queries and what it renders
  deploy,       \* a run of the deploy script
  test,         \* a run of the test script
  build,        \* a run of the build script
  db            \* the relational store: its tables

vars == <<state, storage, initAuth, calls, settled, invoked, refreshLog,
          nextToken, lastAction, nav, dash, deploy, test, build, db>>

\* the state of the authentication provider
authVars == <<state, storage, initAuth, calls, settled, invoked, refreshLog,
              nextToken, lastAction>>

\* what the authentication provider never touches
otherVars == <<nav, dash, deploy, test, build, db>>

\* a part of the system that is not running
Idle == [pc |-> "idle"]

initialState ==
  [user |-> Null, isAuthenticated |-> FALSE, isLoading |-> TRUE, error |-> Null]

(* ---------------- the reducer ---------------- *)
Act(t, p) == [type |-> t, payload |-> p]

\* case 'LOGIN_START'
LOGIN_START(s) == [s EXCEPT !.isLoading = TRUE, !.error = Null]

\* case 'LOGIN_SUCCESS'
LOGIN_SUCCESS(s, payload) ==
  [s EXCEPT !.user = payload, !.isAuthenticated = TRUE,
            !.isLoading = FALSE, !.error = Null]

\* LOGIN_FAILURE that leaves isLoading as it was
LOGIN_FAILURE_keepsLoading(s, payload) ==
  [s EXCEPT !.user = Null, !.isAuthenticated = FALSE, !.error = payload]

\* case 'LOGIN_FAILURE'
LOGIN_FAILURE(s, payload) ==
  [s EXCEPT !.user = Null, !.isAuthenticated = FALSE,
            !.isLoading = FALSE, !.error = payload]

\* LOGOUT that clears the user but leaves isAuthenticated as it was
LOGOUT_keepsAuthenticated(s) ==
  [s EXCEPT !.user = Null, !.isLoading = FALSE, !.error = Null]

\* case 'LOGOUT'
LOGOUT(s) ==
  [s EXCEPT !.user = Null, !.isAuthenticated = FALSE,
            !.isLoading = FALSE, !.error = Null]

\* case 'CLEAR_ERROR'
CLEAR_ERROR(s) == [s EXCEPT !.error = Null]

\* case 'SET_LOADING'
SET_LOADING(s, payload) == [s EXCEPT !.isLoading = payload]

authReducer(s, a) ==
  CASE a.type = "LOGIN_START" -> LOGIN_START(s)
    [] a.type = "LOGIN_SUCCESS" -> LOGIN_SUCCESS(s, a.payload)
    [] a.type = "LOGIN_FAILURE" -> LOGIN_FAILURE(s, a.payload)
    [] a.type = "LOGOUT" -> LOGOUT(s)
    [] a.type = "CLEAR_ERROR" -> CLEAR_ERROR(s)
    [] a.type = "SET_LOADING" -> SET_LOADING(s, a.payload)
    [] OTHER -> s

\* every value of the AuthAction union
AuthActions ==
  {Act("LOGIN_START", None), Act("LOGOUT", None), Act("CLEAR_ERROR", None)}
    \cup {Act("LOGIN_SUCCESS", u) : u \in Users}
    \cup {Act("LOGIN_FAILURE", m) : m \in ErrorMessages}
    \cup {Act("SET_LOADING", b) : b \in BOOLEAN}

\* dispatch(a): the reducer applied to the current state
dispatch(a) ==
  /\ state' = authReducer(state, a)
  /\ lastAction' = a.type

(* ---------------- localStorage ---------------- *)
setTokens(n) == storage' = [accessToken |-> n, refreshToken |-> n]
removeTokens == storage' = [accessToken |-> NoToken, refreshToken |-> NoToken]

(* ---------------- call records ---------------- *)
\* op, pc: the function and the await it is suspended at;
\* email, password: its arguments; reqEmail, reqPassword: the credentials
\* it passed to authService.login; sent: the refresh token it passed to
\* authService.refreshToken; result, thrown: how its promise settled;
\* outcome: the path it took; cause: what the backend call rejected with
NewCall(op, pc, email, password) ==
  [op |-> op, pc |-> pc, email |-> email, password |-> password,
   reqEmail |-> None, reqPassword |-> None, sent |-> NoToken,
   result |-> "pending", outcome |-> "none", thrown |-> NoError,
   cause |-> NoError]

NoCall == NewCall(None, "done", None, None)

CanInvoke == initAuth.pc # "start" /\ invoked < MaxCalls

Calls == DOMAIN calls

Remove(c) == [i \in 1..(Len(calls) - 1) |-> IF i < c THEN calls[i] ELSE calls[i + 1]]

\* the promise of call c settles and the call ends
Settle(c, res, out, err, cause) ==
  /\ settled' = [calls[c] EXCEPT !.pc = "done", !.result = res, !.outcome = out,
                                 !.thrown = err, !.cause = cause]
  /\ calls' = Remove(c)

Invoke(call) ==
  /\ invoked' = invoked + 1
  /\ IF call.pc = "done"
       THEN settled' = call /\ calls' = calls
       ELSE calls' = Append(calls, call) /\ settled' = settled

(* ---------------- initial state ---------------- *)
\* localStorage survives page loads: either token may be left over
InitialStorage ==
  [accessToken : {NoToken, StaleToken}, refreshToken : {NoToken, StaleToken}]

\* the provider right after construction
AuthInit ==
  /\ state = initialState
  /\ storage \in InitialStorage
  /\ initAuth = [pc |-> "start", outcome |-> "none"]
  /\ calls = <<>>
  /\ settled = NoCall
  /\ invoked = 0
  /\ refreshLog = <<>>
  /\ nextToken = StaleToken + 1
  /\ lastAction = None

Init ==
  /\ AuthInit
  /\ nav = Idle
  /\ dash = Idle
  /\ deploy = Idle
  /\ test = Idle
  /\ build = Idle
  /\ db = Idle

(* ---------------- initAuth (useEffect on mount) ---------------- *)
InitAuthStart ==
  /\ initAuth.pc = "start"
  /\ IF storage.accessToken # NoToken
       THEN /\ initAuth' = [pc |-> "awaitUser", outcome |-> "none"]
            /\ UNCHANGED <<state, lastAction>>
       ELSE /\ dispatch(Act("SET_LOADING", FALSE))
            /\ initAuth' = [pc |-> "done", outcome |-> "noToken"]
  /\ UNCHANGED <<storage, calls, settled, invoked, refreshLog, nextToken>>
  /\ UNCHANGED otherVars

InitAuthUserOk(u) ==
  /\ initAuth.pc = "awaitUser"
  /\ dispatch(Act("LOGIN_SUCCESS", u))
  /\ initAuth' = [pc |-> "done", outcome |-> "success"]
  /\ UNCHANGED <<storage, calls, settled, invoked, refreshLog, nextToken>>
  /\ UNCHANGED otherVars

InitAuthUserFail ==
  /\ initAuth.pc = "awaitUser"
  /\ removeTokens
  /\ dispatch(Act("SET_LOADING", FALSE))
  /\ initAuth' = [pc |-> "done", outcome |-> "failed"]
  /\ UNCHANGED <<calls, settled, invoked, refreshLog, nextToken>>
  /\ UNCHANGED otherVars

(* ---------------- login ---------------- *)
\* login(email, password) up to its first await: LOGIN_START is
\* dispatched and authService.login(email, password) is sent
LoginRequest(call, email, password) ==
  [call EXCEPT !.pc = "awaitLogin", !.reqEmail = email, !.reqPassword = password]

LoginInvoke(e, p) ==
  /\ CanInvoke
  /\ dispatch(Act("LOGIN_START", None))
  /\ Invoke(LoginRequest(NewCall("login", "start", e, p), e, p))
  /\ UNCHANGED <<storage, initAuth, refreshLog, nextToken>>
  /\ UNCHANGED otherVars

\* authService.login rejects
LoginBackendFail(c, err) ==
  /\ calls[c].pc = "awaitLogin"
  /\ dispatch(Act("LOGIN_FAILURE", FailureMessage(err, LoginFallback)))
  /\ Settle(c, "resolved", "loginFailed", NoError, err)
  /\ UNCHANGED <<storage, initAuth, invoked, refreshLog, nextToken>>
  /\ UNCHANGED otherVars

\* mfa_required tested only after the tokens were stored
LoginMfa_afterStore(c) ==
  /\ calls[c].pc = "awaitLogin"
  /\ storage' = [accessToken |-> StaleToken, refreshToken |-> StaleToken]
  /\ dispatch(Act("LOGIN_FAILURE", FailureMessage(MkError(MfaMessage), LoginFallback)))
  /\ Settle(c, "resolved", "mfa", NoError, MkError(MfaMessage))
  /\ UNCHANGED <<initAuth, invoked, refreshLog, nextToken>>
  /\ UNCHANGED otherVars

\* response.mfa_required: the Error thrown inside try is caught below
LoginMfa(c) ==
  /\ calls[c].pc = "awaitLogin"
  /\ dispatch(Act("LOGIN_FAILURE", FailureMessage(MkError(MfaMessage), LoginFallback)))
  /\ Settle(c, "resolved", "mfa", NoError, MkError(MfaMessage))
  /\ UNCHANGED <<storage, initAuth, invoked, refreshLog, nextToken>>
  /\ UNCHANGED otherVars

\* tokens returned: store both, then ask for the current user
LoginTokens(c) ==
  /\ calls[c].pc = "awaitLogin"
  /\ nextToken <= MaxToken
  /\ setTokens(nextToken)
  /\ nextToken' = nextToken + 1
  /\ calls' = [calls EXCEPT ![c].pc = "awaitUser"]
  /\ UNCHANGED <<state, lastAction, initAuth, settled, invoked, refreshLog>>
  /\ UNCHANGED otherVars

LoginUserOk(c, u) ==
  /\ calls[c].pc = "awaitUser"
  /\ dispatch(Act("LOGIN_SUCCESS", u))
  /\ Settle(c, "resolved", "success", NoError, NoError)
  /\ UNCHANGED <<storage, initAuth, invoked, refreshLog, nextToken>>
  /\ UNCHANGED otherVars

LoginUserFail(c, err) ==
  /\ calls[c].pc = "awaitUser"
  /\ dispatch(Act("LOGIN_FAILURE", FailureMessage(err, LoginFallback)))
  /\ Settle(c, "resolved", "userFailed", NoError, err)
  /\ UNCHANGED <<storage, initAuth, invoked, refreshLog, nextToken>>
  /\ UNCHANGED otherVars

(* ---------------- register ---------------- *)
RegisterInvoke(e, p) ==
  /\ CanInvoke
  /\ dispatch(Act("LOGIN_START", None))
  /\ Invoke(NewCall("register", "awaitRegister", e, p))
  /\ UNCHANGED <<storage, initAuth, refreshLog, nextToken>>
  /\ UNCHANGED otherVars

\* the rejection of authService.register swallowed: login goes ahead
RegisterFail_thenLogin(c, err) ==
  /\ calls[c].pc = "awaitRegister"
  /\ dispatch(Act("LOGIN_START", None))
  /\ calls' = [calls EXCEPT ![c] =
                 LoginRequest([@ EXCEPT !.outcome = "registerFailed", !.cause = err],
                              @.email, @.password)]
  /\ UNCHANGED <<storage, initAuth, settled, invoked, refreshLog, nextToken>>
  /\ UNCHANGED otherVars

\* authService.register rejects
RegisterFail(c, err) ==
  /\ calls[c].pc = "awaitRegister"
  /\ dispatch(Act("LOGIN_FAILURE", FailureMessage(err, RegisterFallback)))
  /\ Settle(c, "resolved", "registerFailed", NoError, err)
  /\ UNCHANGED <<storage, initAuth, invoked, refreshLog, nextToken>>
  /\ UNCHANGED otherVars

\* account created: await login(userData.email, userData.password)
RegisterOk(c) ==
  /\ calls[c].pc = "awaitRegister"
  /\ dispatch(Act("LOGIN_START", None))
  /\ calls' = [calls EXCEPT ![c] = LoginRequest(@, @.email, @.password)]
  /\ UNCHANGED <<storage, initAuth, settled, invoked, refreshLog, nextToken>>
  /\ UNCHANGED otherVars

(* ---------------- logout ---------------- *)
LogoutInvoke ==
  /\ CanInvoke
  /\ Invoke(NewCall("logout", "awaitLogout", None, None))
  /\ UNCHANGED <<state, lastAction, storage, initAuth, refreshLog, nextToken>>
  /\ UNCHANGED otherVars

\* the cleanup placed in the try block: skipped when the backend fails
LogoutFinish_cleanupInTry(c, ok) ==
  /\ calls[c].pc = "awaitLogout"
  /\ IF ok THEN removeTokens /\ dispatch(Act("LOGOUT", None))
           ELSE UNCHANGED <<storage, state, lastAction>>
  /\ IF calls[c].op = "logout"
       THEN Settle(c, "resolved", IF ok THEN "logoutOk" ELSE "logoutFailed",
                   NoError, NoError)
       ELSE Settle(c, calls[c].result, "forcedLogout", calls[c].thrown,
                   calls[c].cause)
  /\ UNCHANGED <<initAuth, invoked, refreshLog, nextToken>>
  /\ UNCHANGED otherVars

\* authService.logout settled (ok or not): the finally block.  A logout
\* started by refreshToken is not awaited: its promise is dropped
LogoutFinish(c, ok) ==
  /\ calls[c].pc = "awaitLogout"
  /\ removeTokens
  /\ dispatch(Act("LOGOUT", None))
  /\ IF calls[c].op = "logout"
       THEN Settle(c, "resolved", IF ok THEN "logoutOk" ELSE "logoutFailed",
                   NoError, NoError)
       ELSE Settle(c, calls[c].result, "forcedLogout", calls[c].thrown,
                   calls[c].cause)
  /\ UNCHANGED <<initAuth, invoked, refreshLog, nextToken>>
  /\ UNCHANGED otherVars

(* ---------------- refreshToken ---------------- *)
RefreshInvoke ==
  /\ CanInvoke
  /\ LET rt == storage.refreshToken
         call == NewCall("refreshToken", "awaitRefresh", None, None)
     IN  IF rt = NoToken
           THEN /\ Invoke([call EXCEPT !.pc = "done", !.result = "rejected",
                                       !.outcome = "noRefreshToken",
                                       !.thrown = MkError(NoRefreshMessage)])
                /\ UNCHANGED refreshLog
           ELSE /\ Invoke([call EXCEPT !.sent = rt])
                /\ refreshLog' = Append(refreshLog, rt)
  /\ UNCHANGED <<state, lastAction, storage, initAuth, nextToken>>
  /\ UNCHANGED otherVars

RefreshOk(c) ==
  /\ calls[c].pc = "awaitRefresh"
  /\ nextToken <= MaxToken
  /\ setTokens(nextToken)
  /\ nextToken' = nextToken + 1
  /\ Settle(c, "resolved", "refreshed", NoError, NoError)
  /\ UNCHANGED <<state, lastAction, initAuth, invoked, refreshLog>>
  /\ UNCHANGED otherVars

\* the catch block rethrows without calling logout()
RefreshFail_noLogout(c, err) ==
  /\ calls[c].pc = "awaitRefresh"
  /\ Settle(c, "rejected", "refreshFailed", err, err)
  /\ UNCHANGED <<state, lastAction, storage, initAuth, invoked, refreshLog, nextToken>>
  /\ UNCHANGED otherVars

\* authService.refreshToken rejects: logout() is started (not awaited)
\* and the error is rethrown
RefreshFail(c, err) ==
  /\ calls[c].pc = "awaitRefresh"
  /\ calls' = [calls EXCEPT ![c].pc = "awaitLogout", ![c].result = "rejected",
                            ![c].outcome = "refreshFailed", ![c].thrown = err,
                            ![c].cause = err]
  /\ settled' = [calls'[c] EXCEPT !.pc = "done"]
  /\ UNCHANGED <<state, lastAction, storage, initAuth, invoked, refreshLog, nextToken>>
  /\ UNCHANGED otherVars

(* ---------------- clearError ---------------- *)
ClearError ==
  /\ initAuth.pc # "start"
  /\ dispatch(Act("CLEAR_ERROR", None))
  /\ UNCHANGED <<storage, initAuth, calls, settled, invoked, refreshLog, nextToken>>
  /\ UNCHANGED otherVars

(* ---------------- the provider ---------------- *)
Next ==
  \/ InitAuthStart
  \/ \E u \in Users : InitAuthUserOk(u)
  \/ InitAuthUserFail
  \/ \E cr \in Credentials : LoginInvoke(cr[1], cr[2])
  \/ \E c \in Calls, err \in BackendErrors : LoginBackendFail(c, err)
  \/ \E c \in Calls : LoginMfa(c)
  \/ \E c \in Calls : LoginTokens(c)
  \/ \E c \in Calls, u \in Users : LoginUserOk(c, u)
  \/ \E c \in Calls, err \in BackendErrors : LoginUserFail(c, err)
  \/ \E cr \in Credentials : RegisterInvoke(cr[1], cr[2])
  \/ \E c \in Calls, err \in BackendErrors : RegisterFail(c, err)
  \/ \E c \in Calls : RegisterOk(c)
  \/ LogoutInvoke
  \/ \E c \in Calls, ok \in BOOLEAN : LogoutFinish(c, ok)
  \/ RefreshInvoke
  \/ \E c \in Calls : RefreshOk(c)
  \/ \E c \in Calls, err \in BackendErrors : RefreshFail(c, err)
  \/ ClearError

Spec == Init /\ [][Next]_vars

\* every backend request is answered, and the mount effect runs
FairSpec ==
  /\ Spec
  /\ WF_vars(InitAuthStart)
  /\ WF_vars((\E u \in Users : InitAuthUserOk(u)) \/ InitAuthUserFail)
  /\ WF_vars(\E c \in Calls : LoginMfa(c) \/ LoginTokens(c)
                \/ \E err \in BackendErrors : LoginBackendFail(c, err))
  /\ WF_vars(\E c \in Calls : (\E u \in Users : LoginUserOk(c, u))
                \/ \E err \in BackendErrors : LoginUserFail(c, err))
  /\ WF_vars(\E c \in Calls : RegisterOk(c)
                \/ \E err \in BackendErrors : RegisterFail(c, err))
  /\ WF_vars(\E c \in Calls, ok \in BOOLEAN : LogoutFinish(c, ok))
  /\ WF_vars(\E c \in Calls : RefreshOk(c)
                \/ \E err \in BackendErrors : RefreshFail(c, err))

(* ---------------- the reducer on its own ---------------- *)
\* any action of the AuthAction union, in any order
Dispatch(a) ==
  /\ dispatch(a)
  /\ UNCHANGED <<storage, initAuth, calls, settled, invoked, refreshLog, nextToken>>
  /\ UNCHANGED otherVars

ReducerNext == \E a \in AuthActions : Dispatch(a)

ReducerSpec == Init /\ [][ReducerNext]_vars

(* ---------------- properties ---------------- *)
TypeOK ==
  /\ state.user \in Users \cup {Null}
  /\ state.isAuthenticated \in BOOLEAN
  /\ state.isLoading \in BOOLEAN
  /\ state.error \in ErrorMessages \cup {Null}
  /\ storage.accessToken \in 0..MaxToken
  /\ storage.refreshToken \in 0..MaxToken
  /\ Len(calls) <= MaxCalls
  /\ invoked \in 0..MaxCalls

TokensRemoved ==
  storage.accessToken = NoToken /\ storage.refreshToken = NoToken

Unauthenticated == ~state.isAuthenticated /\ state.user = Null

\* a call's promise settled in this step
Settles == Len(calls') < Len(calls)

\* C1: under any sequence of the six reducer actions, isAuthenticated
\* implies that user is not null
C1_AuthenticatedHasUser == state.isAuthenticated => state.user # Null

\* an authenticated state that later actions have left authenticated
C1_Witness ==
  /\ state.isAuthenticated
  /\ state.user \in Users
  /\ lastAction \in {"CLEAR_ERROR", "SET_LOADING", "LOGIN_START"}

\* C2: when the startup user lookup fails, the provider is left
\* unauthenticated (user null, not loading) with both tokens removed,
\* and initAuth has ended and does not look the user up again
C2_StartupFailureUnauthenticated ==
  [][(initAuth.pc = "awaitUser" /\ initAuth'.outcome = "failed")
       => /\ initAuth'.pc = "done"
          /\ TokensRemoved'
          /\ Unauthenticated'
          /\ ~state'.isLoading]_vars

\* C3: a refreshToken call whose backend request fails rejects with that
\* failure, and the logout it starts eventually leaves both tokens
\* removed and the state unauthenticated
C3_RefreshFailureForcesLogout ==
  /\ [](settled.outcome = "refreshFailed"
          => /\ settled.result = "rejected"
             /\ settled.cause \in BackendErrors
             /\ settled.thrown = settled.cause)
  /\ (settled.outcome = "refreshFailed") ~> (TokensRemoved /\ Unauthenticated)

\* the forced logout has run to its end
C3_Witness ==
  /\ settled.op = "refreshToken"
  /\ settled.outcome = "forcedLogout"
  /\ settled.result = "rejected"
  /\ settled.sent # NoToken
  /\ TokensRemoved
  /\ Unauthenticated

\* C4: refreshToken called with no refresh token stored rejects and
\* forces logout: a logout is under way or the client is logged out
C4_NoRefreshTokenForcesLogout ==
  settled.outcome = "noRefreshToken"
    => /\ settled.result = "rejected"
       /\ \/ storage.accessToken = NoToken /\ Unauthenticated
          \/ \E c \in Calls : calls[c].pc = "awaitLogout"

\* C5: logout ends with both tokens removed and the state cleared,
\* whatever the backend answered, and its promise resolves
C5_LogoutAlwaysClears ==
  [][(Settles /\ settled'.outcome \in {"logoutOk", "logoutFailed", "forcedLogout"})
       => /\ TokensRemoved'
          /\ state' = [user |-> Null, isAuthenticated |-> FALSE,
                       isLoading |-> FALSE, error |-> Null]
          /\ (settled'.op = "logout"
                => settled'.result = "resolved" /\ settled'.thrown = NoError)]_vars

\* a logout whose backend call failed has ended
C5_Witness ==
  /\ settled.op = "logout"
  /\ settled.outcome = "logoutFailed"
  /\ settled.result = "resolved"
  /\ TokensRemoved
  /\ Unauthenticated

\* C6 as stated: on mfa_required the login promise rejects with the
\* unimplemented-MFA error
C6_MfaRejects ==
  settled.outcome = "mfa"
    => settled.result = "rejected" /\ settled.thrown = MkError(MfaMessage)

\* C6 amended: on mfa_required the login call resolves after dispatching
\* LOGIN_FAILURE with the unimplemented-MFA message; it writes no token
\* and leaves the state unauthenticated
C6_MfaFailsLogin ==
  [][(Settles /\ settled'.outcome = "mfa")
       => /\ settled'.result = "resolved"
          /\ lastAction' = "LOGIN_FAILURE"
          /\ state'.error = MfaMessage
          /\ Unauthenticated'
          /\ storage' = storage]_vars

C6_Witness ==
  /\ settled.outcome = "mfa"
  /\ state.error = MfaMessage
  /\ lastAction = "LOGIN_FAILURE"

\* the call records of the provider: those in flight and the last settled
Records == {calls[c] : c \in Calls} \cup {settled}

\* C7: register sends the login request only after the backend register
\* call succeeded, with its own email and password; when the backend
\* register call fails no login is attempted, no token is written and
\* the state is left unauthenticated
C7_RegisterThenLogin ==
  /\ [](\A r \in Records : r.op = "register" =>
          /\ r.pc = "awaitRegister" => r.reqEmail = None /\ r.reqPassword = None
          /\ r.outcome = "registerFailed" => r.reqEmail = None /\ r.reqPassword = None
          /\ r.pc \in {"awaitLogin", "awaitUser"}
               => r.reqEmail = r.email /\ r.reqPassword = r.password)
  /\ [][(Settles /\ settled'.outcome = "registerFailed")
          => storage' = storage /\ Unauthenticated']_vars

\* both paths of register have been taken
C7_Witness ==
  /\ settled.op = "register"
  /\ settled.outcome = "registerFailed"
  /\ settled.reqEmail = None
  /\ \E c \in Calls : /\ calls[c].op = "register"
                      /\ calls[c].pc = "awaitUser"
                      /\ calls[c].reqEmail = calls[c].email

FailedOutcomes == {"registerFailed", "loginFailed", "mfa", "userFailed"}

\* C8: a login or register attempt that fails at any step leaves the
\* state with a non-null error, user null, unauthenticated, not loading
C8_FailureSetsError ==
  [][(Settles /\ settled'.outcome \in FailedOutcomes)
       => /\ state'.error # Null
          /\ state'.error \in ErrorMessages
          /\ Unauthenticated'
          /\ ~state'.isLoading]_vars

\* a failure that carried no Error instance: the fallback text is shown
C8_Witness ==
  /\ settled.outcome \in FailedOutcomes
  /\ settled.cause.isError = FALSE
  /\ settled.cause.message # None
  /\ state.error \in {LoginFallback, RegisterFallback}

RefreshInFlight == {c \in Calls : calls[c].pc = "awaitRefresh"}

\* C9: at most one backend refresh request is in flight and no refresh
\* token is sent to the backend twice
C9_RefreshCoalesced ==
  /\ Cardinality(RefreshInFlight) <= 1
  /\ \A i, j \in DOMAIN refreshLog : i # j => refreshLog[i] # refreshLog[j]

\* C10 as stated: isAuthenticated implies not loading, and an error
\* implies not loading
C10_NoLoadingWithResult ==
  /\ state.isAuthenticated => ~state.isLoading
  /\ state.error # Null => ~state.isLoading

LoginInFlight ==
  \E c \in Calls : calls[c].pc \in {"awaitRegister", "awaitLogin", "awaitUser"}

\* C10 amended: an error implies not loading, the state is not loading
\* right after LOGIN_SUCCESS or LOGIN_FAILURE, and isAuthenticated with
\* isLoading occurs only while a login or register call is in flight
C10_TerminalResultNotLoading ==
  /\ state.error # Null => ~state.isLoading
  /\ lastAction \in {"LOGIN_SUCCESS", "LOGIN_FAILURE"} => ~state.isLoading
  /\ (state.isAuthenticated /\ state.isLoading) => LoginInFlight

\* a second login was started on an authenticated client
C10_Witness ==
  /\ state.isAuthenticated
  /\ state.isLoading
  /\ LoginInFlight

(***************************************************************************)
(* The router of App.tsx.  A path is the sequence of its segments.         *)
(***************************************************************************)
PageSegments ==
  {"dashboard", "transactions", "budgets", "goals", "accounts", "reports",
   "chat", "settings"}

\* the page component a segment's route renders: DashboardPage, ...
PageOf(seg) == <<seg, "Page">>

LoginPage == PageOf("login")
RegisterPage == PageOf("register")
ProtectedPages == {PageOf(seg) : seg \in PageSegments}

\* the locations a visitor can ask for
Paths ==
  {<<>>} \cup {<<seg>> : seg \in PageSegments \cup {"login", "register", "missing"}}
         \cup {<<"login", "missing">>, <<"dashboard", "missing">>}

Page(p) == [kind |-> "page", page |-> p, to |-> <<>>]
NavigateTo(path) == [kind |-> "redirect", page |-> <<>>, to |-> path]
Nothing == [kind |-> "empty", page |-> <<>>, to |-> <<>>]

Route(path, splat, element, guarded) ==
  [path |-> path, splat |-> splat, element |-> element, guarded |-> guarded]

\* the top-level <Routes> with the dashboard outside the guard
TopRoutes_publicDashboard ==
  { Route(<<"login">>, FALSE, Page(LoginPage), FALSE),
    Route(<<"register">>, FALSE, Page(RegisterPage), FALSE),
    Route(<<"dashboard">>, FALSE, Page(PageOf("dashboard")), FALSE),
    Route(<<>>, TRUE, Nothing, TRUE) }

\* the top-level <Routes>: /login, /register and "/*" inside ProtectedRoute
TopRoutes ==
  { Route(<<"login">>, FALSE, Page(LoginPage), FALSE),
    Route(<<"register">>, FALSE, Page(RegisterPage), FALSE),
    Route(<<>>, TRUE, Nothing, TRUE) }

\* the <Routes> nested in ProtectedRoute and Layout
NestedRoutes ==
  {Route(<<>>, FALSE, NavigateTo(<<"dashboard">>), TRUE)}
    \cup {Route(<<seg>>, FALSE, Page(PageOf(seg)), TRUE) : seg \in PageSegments}

IsPrefix(a, b) == Len(a) <= Len(b) /\ \A i \in 1..Len(a) : a[i] = b[i]

\* a route matches its path exactly, or any path below it when it ends in *
Matches(r, path) == IF r.splat THEN IsPrefix(r.path, path) ELSE r.path = path

\* the router picks the most specific match: an exact route before a splat
BestMatch(routes, path) ==
  LET exact == {r \in routes : ~r.splat /\ Matches(r, path)}
      splat == {r \in routes : r.splat /\ Matches(r, path)}
  IN  IF exact # {} THEN exact ELSE splat

\* ProtectedRoute: the children for an authenticated visitor, a redirect
\* to /login for anyone else
ProtectedRoute(isAuthenticated, children) ==
  IF isAuthenticated THEN children ELSE NavigateTo(<<"login">>)

\* what <App> renders at a location
Render(path, isAuthenticated) ==
  LET top == BestMatch(TopRoutes, path)
      nested == BestMatch(NestedRoutes, path)
      r == CHOOSE x \in top : TRUE
      inner == IF nested = {} THEN Nothing ELSE (CHOOSE x \in nested : TRUE).element
  IN  IF top = {} THEN Nothing
      ELSE IF r.guarded THEN ProtectedRoute(isAuthenticated, inner)
      ELSE r.element

\* a <Navigate> element replaces the location as soon as it renders
RECURSIVE Follow(_, _, _)
Follow(path, isAuthenticated, fuel) ==
  LET v == Render(path, isAuthenticated)
  IN  IF v.kind = "redirect" /\ fuel > 0
        THEN Follow(v.to, isAuthenticated, fuel - 1)
        ELSE path

MaxRedirects == 3

Visit(requested, from, isAuthenticated) ==
  LET loc == Follow(from, isAuthenticated, MaxRedirects)
  IN  [requested |-> requested, location |-> loc,
       view |-> Render(loc, isAuthenticated)]

RouterInit ==
  /\ AuthInit
  /\ nav \in {Visit(p, p, initialState.isAuthenticated) : p \in Paths}
  /\ dash = Idle
  /\ deploy = Idle
  /\ test = Idle
  /\ build = Idle
  /\ db = Idle

\* the visitor opens a path
Navigate(path) ==
  /\ nav' = Visit(path, path, state.isAuthenticated)
  /\ UNCHANGED <<authVars, dash, deploy, test, build, db>>

\* the auth state changes and the routes render again
AuthChange(a) ==
  /\ dispatch(a)
  /\ nav' = Visit(nav.requested, nav.location, state'.isAuthenticated)
  /\ UNCHANGED <<storage, initAuth, calls, settled, invoked, refreshLog,
                 nextToken, dash, deploy, test, build, db>>

RouterNext ==
  \/ \E p \in Paths : Navigate(p)
  \/ \E a \in AuthActions : AuthChange(a)

RouterSpec == RouterInit /\ [][RouterNext]_vars

\* the top-level route of a path is outside the guard
Public(path) == \E r \in BestMatch(TopRoutes, path) : ~r.guarded

\* C11: only /login and /register are outside ProtectedRoute; a protected
\* page is shown only to an authenticated visitor, an unauthenticated
\* visitor who asked for anything else is at /login, and /login and
\* /register are shown without authentication
C11_RoutesGuarded ==
  /\ \A p \in Paths : Public(p) <=> p \in {<<"login">>, <<"register">>}
  /\ nav.view.kind # "redirect"
  /\ nav.view.page \in ProtectedPages => state.isAuthenticated
  /\ ~state.isAuthenticated =>
       /\ nav.view \in {Page(LoginPage), Page(RegisterPage)}
       /\ ~Public(nav.requested) => nav.location = <<"login">>
       /\ Public(nav.requested) =>
            nav.location = nav.requested /\ nav.view.page = PageOf(nav.requested[1])

\* a visitor who was logged out while on the dashboard
C11_Witness ==
  /\ ~state.isAuthenticated
  /\ lastAction = "LOGOUT"
  /\ nav.requested = <<"dashboard">>
  /\ nav.location = <<"login">>
  /\ nav.view = Page(LoginPage)

(***************************************************************************)
(* DashboardPage: three queries and the figures derived from their data.   *)
(* Money is counted in cents.  An optional value is <<>> (undefined) or    *)
(* <<v>>.                                                                  *)
(***************************************************************************)
MaxAccounts == 3     \* accounts in a fetched list

Undefined == <<>>
Some(v) == <<v>>

\* current_balance values: -50.00, 100.00, 2000.00
Balances == {-5000, 10000, 200000}
\* total_income / total_expenses values, or the field is absent
Incomes == {Undefined, Some(0), Some(300000)}
Expenses == {Undefined, Some(120000), Some(400000)}

AccountLists == UNION {[1..n -> Balances] : n \in 0..MaxAccounts}
Summaries == [total_income : Incomes, total_expenses : Expenses]
\* the page of recent transactions, its rows not looked at here
TransactionPages == {[page |-> 1, size |-> 10]}

QueryKeys == {"accounts", "transactions", "summary"}

\* queries: { retry: 1 }
retry == 1

Query(status, failures, data) ==
  [status |-> status, failures |-> failures, data |-> data]

\* the data a query can fetch
Fetched(key) ==
  CASE key = "accounts" -> AccountLists
    [] key = "transactions" -> TransactionPages
    [] key = "summary" -> Summaries

\* x || 0
OrZero(x) == IF x = Undefined \/ x = Some(0) THEN 0 ELSE x[1]

\* accounts.reduce((sum, account) => sum + account.current_balance, 0)
RECURSIVE reduce(_, _)
reduce(accounts, sum) ==
  IF accounts = <<>> THEN sum
  ELSE reduce(Tail(accounts), sum + Head(accounts))

\* accounts?.reduce(...) || 0
totalBalance(accounts) ==
  IF accounts = Undefined THEN 0 ELSE OrZero(Some(reduce(accounts[1], 0)))

\* summary?.total_income || 0
thisMonthIncome(summary) ==
  IF summary = Undefined THEN 0 ELSE OrZero(summary[1].total_income)

\* summary?.total_expenses || 0
thisMonthExpenses(summary) ==
  IF summary = Undefined THEN 0 ELSE OrZero(summary[1].total_expenses)

\* income and expenses added up instead of subtracted
netIncome_added(summary) == thisMonthIncome(summary) + thisMonthExpenses(summary)

netIncome(summary) == thisMonthIncome(summary) - thisMonthExpenses(summary)

\* the page shown as soon as any one query has finished
isLoading_all(q) ==
  /\ q.accounts.status = "loading"
  /\ q.transactions.status = "loading"
  /\ q.summary.status = "loading"

\* accountsLoading || transactionsLoading || summaryLoading
isLoading(q) ==
  \/ q.accounts.status = "loading"
  \/ q.transactions.status = "loading"
  \/ q.summary.status = "loading"

LoadingSpinner == [kind |-> "LoadingSpinner"]

\* what DashboardPage returns
DashboardPage(q) ==
  IF isLoading(q) THEN LoadingSpinner
  ELSE [kind |-> "dashboard",
        totalBalance |-> totalBalance(q.accounts.data),
        thisMonthIncome |-> thisMonthIncome(q.summary.data),
        thisMonthExpenses |-> thisMonthExpenses(q.summary.data),
        netIncome |-> netIncome(q.summary.data),
        transactions |-> q.transactions.data]

Queries(d) == [k \in QueryKeys |-> d[k]]

Rendered(q) ==
  [accounts |-> q.accounts, transactions |-> q.transactions,
   summary |-> q.summary, view |-> DashboardPage(q)]

DashInit ==
  /\ AuthInit
  /\ nav = Idle
  /\ dash = Idle
  /\ deploy = Idle
  /\ test = Idle
  /\ build = Idle
  /\ db = Idle

\* first render: the three useQuery hooks start their fetches together
DashMount ==
  /\ dash = Idle
  /\ dash' = Rendered([k \in QueryKeys |-> Query("loading", 0, Undefined)])
  /\ UNCHANGED <<authVars, nav, deploy, test, build, db>>

\* the fetch of one query resolves
QuerySucceeds(key, data) ==
  /\ dash # Idle
  /\ dash[key].status = "loading"
  /\ dash' = Rendered([Queries(dash) EXCEPT ![key] = Query("success", @.failures, Some(data))])
  /\ UNCHANGED <<authVars, nav, deploy, test, build, db>>

\* the fetch of one query rejects: retried, then reported as an error
QueryFails(key) ==
  /\ dash # Idle
  /\ dash[key].status = "loading"
  /\ dash' = Rendered([Queries(dash) EXCEPT ![key] =
                 IF @.failures < retry
                   THEN Query("loading", @.failures + 1, Undefined)
                   ELSE Query("error", @.failures + 1, Undefined)])
  /\ UNCHANGED <<authVars, nav, deploy, test, build, db>>

DashNext ==
  \/ DashMount
  \/ \E key \in QueryKeys : \E data \in Fetched(key) : QuerySucceeds(key, data)
  \/ \E key \in QueryKeys : QueryFails(key)

DashSpec == DashInit /\ [][DashNext]_vars

\* C12: while any of the three queries is loading the page is the loading
\* indicator alone; the three queries are started together and each one
\* finishes whatever the state of the other two
C12_SpinnerUntilAllLoaded ==
  dash # Idle =>
    /\ (\E k \in QueryKeys : dash[k].status = "loading") => dash.view = LoadingSpinner
    /\ dash.view = LoadingSpinner => (\E k \in QueryKeys : dash[k].status = "loading")
    /\ \A k \in QueryKeys :
         /\ dash[k].status \in {"loading", "success", "error"}
         /\ dash[k].status = "loading" =>
              ENABLED \E data \in Fetched(k) : QuerySucceeds(k, data)

\* two queries have finished, the third has not
C12_Witness ==
  /\ dash # Idle
  /\ dash.accounts.status = "success"
  /\ dash.summary.status = "success"
  /\ dash.transactions.status = "loading"
  /\ dash.view = LoadingSpinner

RECURSIVE SumOver(_, _)
\* the sum of f over the index set S
SumOver(f, S) ==
  IF S = {} THEN 0
  ELSE LET i == CHOOSE x \in S : TRUE IN f[i] + SumOver(f, S \ {i})

Amount(x) == IF x = Undefined THEN 0 ELSE x[1]

\* C13: the total balance shown is the sum of current_balance over the
\* fetched accounts (0 without a list) and net income is total_income
\* minus total_expenses (each 0 when absent); the balances 100.00, -50.00,
\* 2000.00 with income 3000.00 and expenses 1200.00 give 2050.00 and 1800.00
C13_DerivedFigures ==
  (dash # Idle /\ dash.view.kind = "dashboard") =>
    LET accounts == dash.accounts.data
        summary == dash.summary.data
        income == IF summary = Undefined THEN 0 ELSE Amount(summary[1].total_income)
        expenses == IF summary = Undefined THEN 0 ELSE Amount(summary[1].total_expenses)
    IN  /\ dash.view.totalBalance =
             IF accounts = Undefined THEN 0
             ELSE SumOver(accounts[1], DOMAIN accounts[1])
        /\ dash.view.netIncome = income - expenses
        /\ (/\ accounts = Some(<<10000, -5000, 200000>>)
            /\ income = 300000 /\ expenses = 120000)
             => dash.view.totalBalance = 205000 /\ dash.view.netIncome = 180000

\* the example of the specification, rendered
C13_Witness ==
  /\ dash # Idle
  /\ dash.view.kind = "dashboard"
  /\ dash.accounts.data = Some(<<10000, -5000, 200000>>)
  /\ dash.summary.data = Some([total_income |-> Some(300000),
                               total_expenses |-> Some(120000)])
  /\ dash.view.totalBalance = 205000
  /\ dash.view.netIncome = 180000

\* ------------------------------------------------------------------
\* Deploy script (the bash script stored in DashboardPage.tsx, 236-585)
\* ------------------------------------------------------------------

\* at most this many files in database/migrations
MaxMigrations == 2

\* probes allowed by the database wait loop
timeout == 60

Environments == {"production", "staging"}

EnvFile(ENVIRONMENT) ==
  IF ENVIRONMENT = "production" THEN ".env.production" ELSE ".env.staging"

required_files_envOnly(ENVIRONMENT) ==
  <<EnvFile(ENVIRONMENT), "docker-compose.yml">>

required_files(ENVIRONMENT) ==
  <<EnvFile(ENVIRONMENT), "docker-compose.yml",
    "infra/docker/backend.Dockerfile", "infra/docker/frontend.Dockerfile">>

\* every file the pre-deployment checks may look at
ProjectFiles(ENVIRONMENT) ==
  {EnvFile(ENVIRONMENT), "docker-compose.yml",
   "infra/docker/backend.Dockerfile", "infra/docker/frontend.Dockerfile"}

Tools == {"docker", "docker-compose"}

\* a failing command's exit status is some non-zero value
CommandFailures == {1, 125}

\* what curl -w "%{http_code}" || echo "000" can yield
HttpCodes == {"200", "500", "000"}

\* names of migration files, as sequences of digits ("01", "02", "10", "2")
MigrationNames == {<<0, 1>>, <<0, 2>>, <<1, 0>>, <<2>>}

RECURSIVE Before(_, _)
\* byte-wise filename order, the order of pathname expansion
Before(a, b) ==
  IF a = <<>> THEN b # <<>>
  ELSE IF b = <<>> THEN FALSE
  ELSE IF Head(a) # Head(b) THEN Head(a) < Head(b)
  ELSE Before(Tail(a), Tail(b))

RECURSIVE Glob(_)
\* database/migrations/*.sql expands to the matching names, sorted
Glob(S) ==
  IF S = {} THEN <<>>
  ELSE LET first == CHOOSE x \in S : \A y \in S \ {x} : Before(x, y)
       IN  <<first>> \o Glob(S \ {first})

\* one effect of the run, in the order the script produced it
Ev(op, arg, ok) == [op |-> op, arg |-> arg, ok |-> ok]

Did(d, op) == \E i \in DOMAIN d.log : d.log[i].op = op /\ d.log[i].ok

\* exit N
Exit(d, status) == [d EXCEPT !.pc = "exited", !.exit = status]

\* set -e: a failing simple command ends the run with its status
Errexit(d, op, arg, status) ==
  [d EXCEPT !.pc = "exited", !.exit = status,
            !.log = Append(@, Ev(op, arg, FALSE))]

\* the command succeeded and the script goes on to the next step
Done(d, op, arg, next) ==
  [d EXCEPT !.pc = next, !.log = Append(@, Ev(op, arg, TRUE))]

\* a simple command under set -e: it succeeds, or fails and ends the run
Command(d, op, arg, next) ==
  {Done(d, op, arg, next)} \cup {Errexit(d, op, arg, s) : s \in CommandFailures}

deployFrame == UNCHANGED <<authVars, nav, dash, test, build, db>>

DeployInit ==
  /\ AuthInit
  /\ storage = [accessToken |-> NoToken, refreshToken |-> NoToken]
  /\ nav = Idle /\ dash = Idle /\ test = Idle /\ build = Idle /\ db = Idle
  /\ \E ENVIRONMENT \in Environments :
       \E missing \in SUBSET ProjectFiles(ENVIRONMENT), tools \in SUBSET Tools :
         deploy = [pc |-> "required_files",
                   ENVIRONMENT |-> ENVIRONMENT,
                   files |-> ProjectFiles(ENVIRONMENT) \ missing,
                   tools |-> tools,
                   log |-> <<>>,
                   timeout |-> 0,
                   failedProbes |-> 0,
                   migrations |-> {},
                   pending |-> <<>>,
                   backend_health |-> None,
                   frontend_health |-> None,
                   report |-> <<>>,
                   exit |-> -1]

\* for file in "${required_files[@]}": the first missing one ends the run
CheckRequiredFiles ==
  /\ deploy.pc = "required_files"
  /\ LET files == required_files(deploy.ENVIRONMENT)
     IN  deploy' = IF \E i \in DOMAIN files : files[i] \notin deploy.files
                   THEN Exit(deploy, 1)
                   ELSE [deploy EXCEPT !.pc = "docker"]
  /\ deployFrame

CheckDocker ==
  /\ deploy.pc = "docker"
  /\ deploy' = IF "docker" \notin deploy.tools
               THEN Exit(deploy, 1)
               ELSE [deploy EXCEPT !.pc = "docker-compose"]
  /\ deployFrame

CheckDockerCompose ==
  /\ deploy.pc = "docker-compose"
  /\ deploy' = IF "docker-compose" \notin deploy.tools
               THEN Exit(deploy, 1)
               ELSE [deploy EXCEPT !.pc = "source"]
  /\ deployFrame

\* source ".env.${ENVIRONMENT}"
LoadEnvironment ==
  /\ deploy.pc = "source"
  /\ IF EnvFile(deploy.ENVIRONMENT) \in deploy.files
     THEN deploy' \in Command(deploy, "source", <<>>, "mkdir")
     ELSE deploy' = Exit(deploy, 1)
  /\ deployFrame

\* mkdir -p "$BACKUP_DIR"
CreateBackupDirectory ==
  /\ deploy.pc = "mkdir"
  /\ deploy' \in Command(deploy, "mkdir", <<>>, "backup")
  /\ deployFrame

\* the backup block without the test of $ENVIRONMENT
DatabaseBackup_anyTarget ==
  /\ deploy.pc = "backup"
  /\ \E ping \in BOOLEAN :
       LET probed == [deploy EXCEPT !.log = Append(@, Ev("ping", <<>>, ping))]
       IN  IF ping
           THEN deploy' \in Command(probed, "mysqldump", <<>>, "down")
           ELSE deploy' = [probed EXCEPT !.pc = "down"]
  /\ deployFrame

\* production only: dump the database if it answers, else warn and go on
DatabaseBackup ==
  /\ deploy.pc = "backup"
  /\ IF deploy.ENVIRONMENT = "production"
     THEN \E ping \in BOOLEAN :
            LET probed == [deploy EXCEPT !.log = Append(@, Ev("ping", <<>>, ping))]
            IN  IF ping
                THEN deploy' \in Command(probed, "mysqldump", <<>>, "down")
                ELSE deploy' = [probed EXCEPT !.pc = "down"]
     ELSE deploy' = [deploy EXCEPT !.pc = "down"]
  /\ deployFrame

\* docker-compose down || print_warning ...
StopServices ==
  /\ deploy.pc = "down"
  /\ deploy' = Done(deploy, "down", <<>>, "build")
  /\ deployFrame

\* docker-compose build --no-cache
BuildImages ==
  /\ deploy.pc = "build"
  /\ deploy' \in Command(deploy, "build", <<>>, "up_db")
  /\ deployFrame

\* docker-compose up -d mysql redis; timeout=60
StartDatabase ==
  /\ deploy.pc = "up_db"
  /\ deploy' \in Command([deploy EXCEPT !.timeout = timeout], "up_db", <<>>, "wait_db")
  /\ deployFrame

\* the loop condition fails: mysqladmin ping succeeded
DatabaseReady ==
  /\ deploy.pc = "wait_db"
  /\ deploy' = Done(deploy, "db_ready", <<>>, "schema")
  /\ deployFrame

\* the loop body with the test of $timeout ahead of the decrement
DatabaseNotReady_testFirst ==
  /\ deploy.pc = "wait_db"
  /\ IF deploy.timeout = 0
     THEN deploy' = Exit(deploy, 1)
     ELSE deploy' = [deploy EXCEPT !.timeout = @ - 1, !.failedProbes = @ + 1]
  /\ deployFrame

\* the loop body: one more failed probe
DatabaseNotReady ==
  /\ deploy.pc = "wait_db"
  /\ LET waited == [deploy EXCEPT !.timeout = @ - 1, !.failedProbes = @ + 1]
     IN  deploy' = IF waited.timeout = 0 THEN Exit(waited, 1) ELSE waited
  /\ deployFrame

\* mysql ... < database/schema.sql
ApplySchema ==
  /\ deploy.pc = "schema"
  /\ deploy' \in Command(deploy, "schema", <<>>, "glob")
  /\ deployFrame

\* for migration in database/migrations/*.sql
ListMigrations ==
  /\ deploy.pc = "glob"
  /\ \E found \in SUBSET MigrationNames :
       /\ Cardinality(found) <= MaxMigrations
       /\ deploy' = [deploy EXCEPT !.pc = "migrations",
                                   !.migrations = found,
                                   !.pending = Glob(found)]
  /\ deployFrame

\* the loop body with the migration's status ignored
RunMigration_ignoreStatus ==
  /\ deploy.pc = "migrations"
  /\ deploy.pending # <<>>
  /\ \E ok \in BOOLEAN :
       deploy' = [deploy EXCEPT !.pending = Tail(@),
                                !.log = Append(@, Ev("migration", Head(deploy.pending), ok))]
  /\ deployFrame

\* mysql ... < "$migration"
RunMigration ==
  /\ deploy.pc = "migrations"
  /\ deploy.pending # <<>>
  /\ deploy' \in Command([deploy EXCEPT !.pending = Tail(@)],
                         "migration", Head(deploy.pending), "migrations")
  /\ deployFrame

\* docker-compose up -d
StartAllServices ==
  /\ deploy.pc = "migrations"
  /\ deploy.pending = <<>>
  /\ deploy' \in Command(deploy, "up", <<>>, "health")
  /\ deployFrame

\* sleep 30, the backend and frontend health checks; these, the database
\* check, the smoke test and the TLS check only print their outcome
HealthChecks ==
  /\ deploy.pc = "health"
  /\ \E backend \in HttpCodes, frontend \in HttpCodes :
       deploy' = [deploy EXCEPT !.pc = "baseline",
                                !.backend_health = backend,
                                !.frontend_health = frontend,
                                !.log = Append(@, Ev("health", <<>>,
                                   backend = "200" /\ frontend = "200"))]
  /\ deployFrame

\* response_time=$(curl -s -w "%{time_total}" -o /dev/null .../health)
PerformanceBaseline ==
  /\ deploy.pc = "baseline"
  /\ deploy' \in Command(deploy, "baseline", <<>>, "deployments.log")
  /\ deployFrame

\* cat >> deployments.log
LogDeployment ==
  /\ deploy.pc = "deployments.log"
  /\ deploy' \in Command(deploy, "deployments.log", <<>>, "prune")
  /\ deployFrame

\* docker image prune -f
CleanupImages ==
  /\ deploy.pc = "prune"
  /\ deploy' \in Command(deploy, "prune", <<>>, "security")
  /\ deployFrame

\* production only: docker inspect of every container
SecurityScan ==
  /\ deploy.pc = "security"
  /\ IF deploy.ENVIRONMENT = "production"
     THEN deploy' \in Command(deploy, "inspect", <<>>, "report")
     ELSE deploy' = [deploy EXCEPT !.pc = "report"]
  /\ deployFrame

\* cat > "deployment-report-${BUILD_VERSION}.txt"
GenerateReport ==
  /\ deploy.pc = "report"
  /\ deploy' \in Command([deploy EXCEPT !.report =
                            <<[backend |-> deploy.backend_health,
                               frontend |-> deploy.frontend_health]>>],
                         "report", <<>>, "post")
  /\ deployFrame

\* warm-up requests (|| true) and, in production with systemctl, the unit
PostDeployment ==
  /\ deploy.pc = "post"
  /\ IF deploy.ENVIRONMENT = "production"
     THEN \E systemctl \in BOOLEAN, copied \in BOOLEAN :
            IF systemctl /\ copied
            THEN deploy' \in Command(deploy, "systemctl", <<>>, "final")
            ELSE deploy' = [deploy EXCEPT !.pc = "final"]
     ELSE deploy' = [deploy EXCEPT !.pc = "final"]
  /\ deployFrame

\* print_success "Deployment completed successfully!" ... webhook || warn
FinalStatus ==
  /\ deploy.pc = "final"
  /\ deploy' = Exit(Done(deploy, "success", <<>>, "final"), 0)
  /\ deployFrame

DeployNext ==
  \/ CheckRequiredFiles
  \/ CheckDocker
  \/ CheckDockerCompose
  \/ LoadEnvironment
  \/ CreateBackupDirectory
  \/ DatabaseBackup
  \/ StopServices
  \/ BuildImages
  \/ StartDatabase
  \/ DatabaseReady
  \/ DatabaseNotReady
  \/ ApplySchema
  \/ ListMigrations
  \/ RunMigration
  \/ StartAllServices
  \/ HealthChecks
  \/ PerformanceBaseline
  \/ LogDeployment
  \/ CleanupImages
  \/ SecurityScan
  \/ GenerateReport
  \/ PostDeployment
  \/ FinalStatus

DeploySpec == DeployInit /\ [][DeployNext]_vars

\* the scheduler runs the script to its end
DeployFairSpec == DeploySpec /\ WF_vars(DeployNext)

\* the position of the first successful op in the log, 0 if there is none
Position(d, op) ==
  IF Did(d, op)
  THEN CHOOSE i \in DOMAIN d.log :
         /\ d.log[i].op = op /\ d.log[i].ok
         /\ \A j \in 1..(i - 1) : ~(d.log[j].op = op /\ d.log[j].ok)
  ELSE 0

HealthChecked(d) == d.backend_health # None

\* C14: a backend or frontend health probe that did not return 200 makes
\* the run fail (non-zero exit, or a failure entry in the report) and the
\* run never reports the deployment as completed successfully
C14_HealthGate ==
  (deploy # Idle /\ HealthChecked(deploy)
     /\ (deploy.backend_health # "200" \/ deploy.frontend_health # "200")) =>
    /\ ~Did(deploy, "success")
    /\ deploy.pc = "exited" =>
         \/ deploy.exit # 0
         \/ /\ deploy.report # <<>>
            /\ "FAIL" \in {deploy.report[1].backend, deploy.report[1].frontend}

\* C15: the wait for the database ends: there are never more than 60
\* failed probes, the 60th ends the run with a non-zero status before the
\* schema is applied or the remaining services are started, and a run that
\* is waiting always leaves the wait
C15_WaitTerminates ==
  /\ [](deploy # Idle =>
          /\ deploy.failedProbes <= 60
          /\ deploy.failedProbes = 60 =>
               /\ deploy.pc = "exited"
               /\ deploy.exit # 0
               /\ ~Did(deploy, "db_ready")
               /\ ~Did(deploy, "schema")
               /\ ~Did(deploy, "up"))
  /\ (deploy # Idle /\ deploy.pc = "wait_db") ~> (deploy # Idle /\ deploy.pc # "wait_db")

\* the database never answered
C15_Witness ==
  /\ deploy # Idle
  /\ deploy.failedProbes = 60
  /\ deploy.pc = "exited"
  /\ deploy.exit = 1
  /\ Did(deploy, "up_db")

Tried(d, op) == \E i \in DOMAIN d.log : d.log[i].op = op

\* C16 as stated: in production the backup is written before the services
\* are stopped, and no other target attempts a backup
C16_ProductionBackedUp ==
  deploy # Idle =>
    /\ (deploy.ENVIRONMENT = "production" /\ Did(deploy, "down")) =>
         /\ Did(deploy, "mysqldump")
         /\ Position(deploy, "mysqldump") < Position(deploy, "down")
    /\ deploy.ENVIRONMENT # "production" =>
         ~Tried(deploy, "ping") /\ ~Tried(deploy, "mysqldump")

\* C16: in production the database is probed once after the backup
\* directory exists and before the services are stopped; if it answers,
\* the dump is written before the services are stopped and a failing dump
\* ends the run with the services still up; if it does not answer, no dump
\* is made and the run goes on; no other target probes or dumps
C16_BackupWhenReachable ==
  deploy # Idle =>
    /\ (deploy.ENVIRONMENT = "production" /\ Did(deploy, "down")) =>
         /\ Tried(deploy, "ping")
         /\ Did(deploy, "ping") =>
              /\ Did(deploy, "mysqldump")
              /\ Position(deploy, "mkdir") < Position(deploy, "mysqldump")
              /\ Position(deploy, "mysqldump") < Position(deploy, "down")
         /\ ~Did(deploy, "ping") => ~Tried(deploy, "mysqldump")
    /\ (Tried(deploy, "mysqldump") /\ ~Did(deploy, "mysqldump")) =>
         /\ deploy.pc = "exited"
         /\ deploy.exit # 0
         /\ ~Tried(deploy, "down")
    /\ deploy.ENVIRONMENT # "production" =>
         ~Tried(deploy, "ping") /\ ~Tried(deploy, "mysqldump")

\* a production run stops the services without a backup
C16_Witness ==
  /\ deploy # Idle
  /\ deploy.ENVIRONMENT = "production"
  /\ Tried(deploy, "ping")
  /\ ~Did(deploy, "ping")
  /\ ~Tried(deploy, "mysqldump")
  /\ Did(deploy, "down")

\* a sorts before b as a file name
FilenameOrder(a, b) ==
  \E k \in 1..(Len(b)) :
    /\ \A j \in 1..(k - 1) : j <= Len(a) /\ a[j] = b[j]
    /\ \/ k = Len(a) + 1
       \/ k <= Len(a) /\ a[k] < b[k]

Migrated(d) == {i \in DOMAIN d.log : d.log[i].op = "migration"}

\* C17: the remaining services are started only after the database has
\* answered, then the base schema was applied, then every migration file
\* was applied in filename order; a failing schema or migration step ends
\* the run before the remaining services start
C17_MigrateBeforeStart ==
  deploy # Idle =>
    /\ Did(deploy, "up") =>
         /\ Did(deploy, "db_ready")
         /\ Did(deploy, "schema")
         /\ Position(deploy, "db_ready") < Position(deploy, "schema")
         /\ Position(deploy, "schema") < Position(deploy, "up")
         /\ {deploy.log[i].arg : i \in Migrated(deploy)} = deploy.migrations
         /\ \A i \in Migrated(deploy) :
              /\ deploy.log[i].ok
              /\ Position(deploy, "schema") < i
              /\ i < Position(deploy, "up")
         /\ \A i \in Migrated(deploy), j \in Migrated(deploy) :
              i < j => FilenameOrder(deploy.log[i].arg, deploy.log[j].arg)
    /\ \A i \in DOMAIN deploy.log :
         (deploy.log[i].op \in {"schema", "migration"} /\ ~deploy.log[i].ok) =>
           /\ deploy.pc = "exited"
           /\ deploy.exit # 0
           /\ ~Tried(deploy, "up")

\* two migrations whose filename order is not their numeric order
C17_Witness ==
  /\ deploy # Idle
  /\ Did(deploy, "up")
  /\ deploy.migrations = {<<1, 0>>, <<2>>}
  /\ Cardinality(Migrated(deploy)) = 2

\* C18: with a required file or docker / docker-compose missing the run
\* ends with a non-zero status in the pre-deployment checks, before the
\* backup directory is created, a service stopped or an image built
C18_PreconditionsFatal ==
  (/\ deploy # Idle
   /\ \/ \E f \in {EnvFile(deploy.ENVIRONMENT), "docker-compose.yml",
                   "infra/docker/backend.Dockerfile",
                   "infra/docker/frontend.Dockerfile"} : f \notin deploy.files
      \/ "docker" \notin deploy.tools
      \/ "docker-compose" \notin deploy.tools) =>
    /\ deploy.pc \in {"required_files", "docker", "docker-compose", "exited"}
    /\ deploy.log = <<>>
    /\ deploy.pc = "exited" => deploy.exit # 0

\* only the frontend Dockerfile is missing
C18_Witness ==
  /\ deploy # Idle
  /\ deploy.files = ProjectFiles(deploy.ENVIRONMENT) \ {"infra/docker/frontend.Dockerfile"}
  /\ deploy.tools = Tools
  /\ deploy.pc = "exited"
  /\ deploy.exit = 1
  /\ deploy.log = <<>>

\* ------------------------------------------------------------------
\* Test script (scripts/test.sh)
\* ------------------------------------------------------------------

\* the names given to record_test, split at the underscores
TestNames ==
  [backend_unit_tests |-> <<"backend", "unit", "tests">>,
   backend_integration_tests |-> <<"backend", "integration", "tests">>,
   backend_security |-> <<"backend", "security">>,
   backend_code_quality |-> <<"backend", "code", "quality">>,
   backend_type_checking |-> <<"backend", "type", "checking">>,
   frontend_unit_tests |-> <<"frontend", "unit", "tests">>,
   frontend_linting |-> <<"frontend", "linting">>,
   frontend_type_checking |-> <<"frontend", "type", "checking">>,
   frontend_build |-> <<"frontend", "build">>,
   frontend_bundle_size |-> <<"frontend", "bundle", "size">>,
   database_connection |-> <<"database", "connection">>,
   database_schema |-> <<"database", "schema">>,
   integration_api_health |-> <<"integration", "api", "health">>,
   integration_user_registration |-> <<"integration", "user", "registration">>,
   integration_frontend_access |-> <<"integration", "frontend", "access">>,
   performance_api_response |-> <<"performance", "api", "response">>,
   performance_load_test |-> <<"performance", "load", "test">>,
   e2e_tests |-> <<"e2e", "tests">>,
   mobile_tests |-> <<"mobile", "tests">>]

\* the directories the script works in, besides the one it is started in
Subdirectories == {"backend", "frontend-web", "frontend-mobile"}

\* p occurs in s: the glob *p* and an unanchored grep for p
Contains(s, p) ==
  \E i \in 0..(Len(s) - Len(p)) : \A j \in 1..Len(p) : s[i + j] = p[j]

\* grep -E "(backend_unit|integration_api)": the database alternative left out
critical_noDatabase == {<<"backend", "unit">>, <<"integration", "api">>}

\* grep -E "(backend_unit|integration_api|database)"
critical == {<<"backend", "unit">>, <<"integration", "api">>, <<"database">>}

\* the line record_test writes; the free-text details hold no upper-case
\* FAIL and none of the critical names, so they are left out
Line(test_name, result) == test_name \o <<result>>

\* grep "FAIL" | grep -E "(...)" keeps the line
Counted(line) ==
  /\ Contains(line, <<"FAIL">>)
  /\ \E p \in critical : Contains(line, p)

\* "$TEST_RESULTS_DIR" is relative: it names the directory made at start
\* only from the start directory, or through a link in the current one
Writable(t) == t.cwd = "root" \/ t.cwd \in t.linked

\* a command fails under set -e
Stop(t, status) == [t EXCEPT !.pc = "exited", !.exit = status, !.stopped = t.pc]

\* a command that must succeed: go on, or end the run with its status
Runs(t, next) ==
  {[t EXCEPT !.pc = next]} \cup {Stop(t, s) : s \in CommandFailures}

cd(t, dir) == IF t.pc = "exited" THEN t ELSE [t EXCEPT !.cwd = dir]

Result(passed) == IF passed THEN "PASS" ELSE "FAIL"

\* the category's test failed
Failed(t, passed, category) ==
  IF passed THEN t ELSE [t EXCEPT !.failed = @ \cup {category}]

record_test(t, test_name, result, next) ==
  IF ~Writable(t)
  THEN Stop(t, 1)
  ELSE LET kind == IF Counted(Line(test_name, result)) THEN "counted" ELSE "other"
           passed == result = "PASS"
           arm == IF ~passed THEN "none"
                  ELSE IF Contains(test_name, <<"backend">>) THEN "backend"
                  ELSE IF Contains(test_name, <<"frontend">>) THEN "frontend"
                  ELSE IF Contains(test_name, <<"integration">>) THEN "integration"
                  ELSE "none"
       IN  [t EXCEPT !.pc = next,
                     !.file[kind] = @ + 1,
                     !.BACKEND_TESTS_PASSED = IF arm = "backend" THEN @ + 1 ELSE @,
                     !.FRONTEND_TESTS_PASSED = IF arm = "frontend" THEN @ + 1 ELSE @,
                     !.INTEGRATION_TESTS_PASSED = IF arm = "integration" THEN @ + 1 ELSE @,
                     !.TOTAL_TESTS = @ + 1]

\* grep "FAIL" file | grep -E "(...)" | wc -l
critical_failures(t) == t.file["counted"]

testFrame == UNCHANGED <<authVars, nav, dash, deploy, build, db>>

TestInit ==
  /\ AuthInit
  /\ storage = [accessToken |-> NoToken, refreshToken |-> NoToken]
  /\ nav = Idle /\ dash = Idle /\ deploy = Idle /\ build = Idle /\ db = Idle
  /\ \E linked \in SUBSET Subdirectories :
       test = [pc |-> "mkdir", cwd |-> "root", linked |-> linked,
               BACKEND_TESTS_PASSED |-> 0, FRONTEND_TESTS_PASSED |-> 0,
               INTEGRATION_TESTS_PASSED |-> 0, TOTAL_TESTS |-> 0,
               file |-> [counted |-> 0, other |-> 0],
               failed |-> {}, stopped |-> None, exit |-> -1]

\* mkdir -p "$TEST_RESULTS_DIR"
CreateResultsDirectory ==
  /\ test.pc = "mkdir"
  /\ test' \in Runs(test, "backend")
  /\ testFrame

\* cd backend, the virtual environment, pip install
BackendSetup ==
  /\ test.pc = "backend"
  /\ test' \in {cd(t, "backend") : t \in Runs(test, "backend_unit")}
  /\ testFrame

BackendUnitTests ==
  /\ test.pc = "backend_unit"
  /\ \E passed \in BOOLEAN :
       test' = record_test(Failed(test, passed, "backend unit"),
                           TestNames.backend_unit_tests, Result(passed), "backend_integration")
  /\ testFrame

BackendIntegrationTests ==
  /\ test.pc = "backend_integration"
  /\ \E passed \in BOOLEAN :
       test' = record_test(test, TestNames.backend_integration_tests, Result(passed), "bandit")
  /\ testFrame

SecurityTests ==
  /\ test.pc = "bandit"
  /\ \E result \in {"PASS", "FAIL", "SKIP"} :
       test' = record_test(test, TestNames.backend_security, result, "flake8")
  /\ testFrame

CodeQualityTests ==
  /\ test.pc = "flake8"
  /\ \E installed \in BOOLEAN, passed \in BOOLEAN :
       test' = IF installed
               THEN record_test(test, TestNames.backend_code_quality, Result(passed), "mypy")
               ELSE [test EXCEPT !.pc = "mypy"]
  /\ testFrame

TypeChecking ==
  /\ test.pc = "mypy"
  /\ \E installed \in BOOLEAN, passed \in BOOLEAN :
       test' = IF installed
               THEN record_test(test, TestNames.backend_type_checking, Result(passed), "frontend")
               ELSE [test EXCEPT !.pc = "frontend"]
  /\ testFrame

\* deactivate, cd .., cd frontend-web, npm ci
FrontendSetup ==
  /\ test.pc = "frontend"
  /\ test' \in {cd(t, "frontend-web") : t \in Runs(test, "frontend_unit")}
  /\ testFrame

FrontendUnitTests ==
  /\ test.pc = "frontend_unit"
  /\ \E passed \in BOOLEAN :
       test' = record_test(test, TestNames.frontend_unit_tests, Result(passed), "lint")
  /\ testFrame

FrontendLinting ==
  /\ test.pc = "lint"
  /\ \E passed \in BOOLEAN :
       test' = record_test(test, TestNames.frontend_linting, Result(passed), "tsc")
  /\ testFrame

FrontendTypeChecking ==
  /\ test.pc = "tsc"
  /\ \E passed \in BOOLEAN :
       test' = record_test(test, TestNames.frontend_type_checking, Result(passed), "build")
  /\ testFrame

FrontendBuild ==
  /\ test.pc = "build"
  /\ \E passed \in BOOLEAN :
       test' = record_test(test, TestNames.frontend_build, Result(passed), "bundle")
  /\ testFrame

\* the bundle size if dist exists, then cd ..
BundleAnalysis ==
  /\ test.pc = "bundle"
  /\ \E dist \in BOOLEAN :
       test' = IF dist
               THEN cd(record_test(test, TestNames.frontend_bundle_size, "INFO", "docker"), "root")
               ELSE cd([test EXCEPT !.pc = "docker"], "root")
  /\ testFrame

\* docker run -d --name test-mysql ..., when docker is installed
StartTestDatabase ==
  /\ test.pc = "docker"
  /\ \E installed \in BOOLEAN :
       IF installed
       THEN test' \in Runs(test, "database_connection")
       ELSE test' = [test EXCEPT !.pc = "compose"]
  /\ testFrame

DatabaseConnection ==
  /\ test.pc = "database_connection"
  /\ \E passed \in BOOLEAN :
       test' = record_test(Failed(test, passed, "database"),
                           TestNames.database_connection, Result(passed), "database_schema")
  /\ testFrame

DatabaseSchema ==
  /\ test.pc = "database_schema"
  /\ \E passed \in BOOLEAN :
       test' = record_test(Failed(test, passed, "database"),
                           TestNames.database_schema, Result(passed), "docker_stop")
  /\ testFrame

\* docker stop test-mysql; docker rm test-mysql
StopTestDatabase ==
  /\ test.pc = "docker_stop"
  /\ test' \in Runs(test, "compose")
  /\ testFrame

\* docker-compose up -d, when docker-compose is installed
StartServices ==
  /\ test.pc = "compose"
  /\ \E installed \in BOOLEAN :
       IF installed
       THEN test' \in Runs(test, "api_health")
       ELSE test' = [test EXCEPT !.pc = "e2e"]
  /\ testFrame

\* health_response=$(curl ...): a curl that cannot connect ends the run
ApiHealth ==
  /\ test.pc = "api_health"
  /\ \E connected \in BOOLEAN, passed \in BOOLEAN :
       IF connected
       THEN test' = record_test(Failed(test, passed, "integration API"),
                                TestNames.integration_api_health, Result(passed), "registration")
       ELSE test' \in {Stop(Failed(test, FALSE, "integration API"), s) : s \in CommandFailures}
  /\ testFrame

UserRegistration ==
  /\ test.pc = "registration"
  /\ \E connected \in BOOLEAN, passed \in BOOLEAN :
       IF connected
       THEN test' = record_test(test, TestNames.integration_user_registration, Result(passed), "frontend_access")
       ELSE test' \in {Stop(test, s) : s \in CommandFailures}
  /\ testFrame

FrontendAccess ==
  /\ test.pc = "frontend_access"
  /\ \E connected \in BOOLEAN, passed \in BOOLEAN :
       IF connected
       THEN test' = record_test(test, TestNames.integration_frontend_access, Result(passed), "response_time")
       ELSE test' \in {Stop(test, s) : s \in CommandFailures}
  /\ testFrame

ApiResponseTime ==
  /\ test.pc = "response_time"
  /\ \E connected \in BOOLEAN, passed \in BOOLEAN :
       IF connected
       THEN test' = record_test(test, TestNames.performance_api_response, Result(passed), "ab")
       ELSE test' \in {Stop(test, s) : s \in CommandFailures}
  /\ testFrame

\* ab -n 100 -c 10 ..., when ab is installed
LoadTest ==
  /\ test.pc = "ab"
  /\ \E installed \in BOOLEAN, completed \in BOOLEAN :
       IF ~installed THEN test' = [test EXCEPT !.pc = "compose_down"]
       ELSE IF completed
       THEN test' = record_test(test, TestNames.performance_load_test, "PASS", "compose_down")
       ELSE test' \in {Stop(test, s) : s \in CommandFailures}
  /\ testFrame

\* docker-compose down; docker-compose rm -f
StopServices_test ==
  /\ test.pc = "compose_down"
  /\ test' \in Runs(test, "e2e")
  /\ testFrame

\* with a Playwright or Cypress configuration: cd frontend-web, run the
\* first runner found; a failing run ends the script before $? is read
EndToEndTests ==
  /\ test.pc = "e2e"
  /\ \E configured \in BOOLEAN, runner \in BOOLEAN, passed \in BOOLEAN :
       LET there == cd(test, "frontend-web")
       IN  IF ~configured THEN test' = [test EXCEPT !.pc = "mobile"]
           ELSE IF ~runner THEN test' = [test EXCEPT !.pc = "mobile"]
           ELSE IF passed
           THEN test' = cd(record_test(there, TestNames.e2e_tests, "PASS", "mobile"), "root")
           ELSE test' \in {Stop(there, s) : s \in CommandFailures}
  /\ testFrame

\* with frontend-mobile/package.json: cd frontend-mobile, npm test
MobileTests ==
  /\ test.pc = "mobile"
  /\ \E present \in BOOLEAN, passed \in BOOLEAN :
       test' = IF present
               THEN cd(record_test(cd(test, "frontend-mobile"), TestNames.mobile_tests,
                                   Result(passed), "reports"), "root")
               ELSE [test EXCEPT !.pc = "reports"]
  /\ testFrame

\* test_summary.html, test_results.json and the final summary
GenerateReports ==
  /\ test.pc = "reports"
  /\ test' \in Runs(test, "critical")
  /\ testFrame

\* exit 1 when the results file has a FAIL line of a critical test
CheckCriticalFailures ==
  /\ test.pc = "critical"
  /\ test' = IF critical_failures(test) > 0 THEN Stop(test, 1) ELSE Stop(test, 0)
  /\ testFrame

TestNext ==
  \/ CreateResultsDirectory
  \/ BackendSetup
  \/ BackendUnitTests
  \/ BackendIntegrationTests
  \/ SecurityTests
  \/ CodeQualityTests
  \/ TypeChecking
  \/ FrontendSetup
  \/ FrontendUnitTests
  \/ FrontendLinting
  \/ FrontendTypeChecking
  \/ FrontendBuild
  \/ BundleAnalysis
  \/ StartTestDatabase
  \/ DatabaseConnection
  \/ DatabaseSchema
  \/ StopTestDatabase
  \/ StartServices
  \/ ApiHealth
  \/ UserRegistration
  \/ FrontendAccess
  \/ ApiResponseTime
  \/ LoadTest
  \/ StopServices_test
  \/ EndToEndTests
  \/ MobileTests
  \/ GenerateReports
  \/ CheckCriticalFailures

TestSpec == TestInit /\ [][TestNext]_vars

\* the steps that prepare or clean up the environment; a failure there is
\* a failed precondition, not a test result
SetupSteps ==
  {"mkdir", "backend", "frontend", "docker", "docker_stop", "compose",
   "compose_down", "reports"}

\* C19: a run whose preparation and clean-up commands all succeed ends with
\* a non-zero status only if a backend unit, an integration API or a
\* database test failed; with none of those failing it ends with status 0
\* whatever happens in the other categories
C19_NonZeroOnlyIfCritical ==
  (/\ test # Idle
   /\ test.pc = "exited"
   /\ test.stopped \notin SetupSteps
   /\ test.failed = {}) => test.exit = 0

buildFrame == UNCHANGED <<authVars, nav, dash, deploy, test, db>>

BuildInit ==
  /\ AuthInit
  /\ storage = [accessToken |-> NoToken, refreshToken |-> NoToken]
  /\ nav = Idle /\ dash = Idle /\ deploy = Idle /\ test = Idle /\ db = Idle
  /\ \E tools \in SUBSET Tools :
       build = [pc |-> "tools", tools |-> tools, log |-> <<>>, exit |-> -1]

\* a command whose failure is only warned about (cmd || print_warning, or
\* the condition of an if): the script goes on either way
Warned(d, op, next) ==
  {[d EXCEPT !.pc = next, !.log = Append(@, Ev(op, <<>>, ok))] : ok \in BOOLEAN}

\* command -v docker, command -v docker-compose
CheckBuildTools ==
  /\ build.pc = "tools"
  /\ build' = IF "docker" \notin build.tools
              THEN Errexit(build, "docker", <<>>, 1)
              ELSE IF "docker-compose" \notin build.tools
              THEN Errexit(build, "docker-compose", <<>>, 1)
              ELSE [build EXCEPT !.pc = "mkdir"]
  /\ buildFrame

\* mkdir -p logs ... infra/ssl
CreateDirectories ==
  /\ build.pc = "mkdir"
  /\ build' \in Command(build, "mkdir", <<>>, "backend")
  /\ buildFrame

\* cd backend, the virtual environment, pip install, the spaCy model
BuildBackend ==
  /\ build.pc = "backend"
  /\ build' \in Command(build, "backend", <<>>, "pytest")
  /\ buildFrame

\* pytest as a plain command: its failure ends the run
BackendTests_fatal ==
  /\ build.pc = "pytest"
  /\ build' \in Command(build, "pytest", <<>>, "node")
  /\ buildFrame

\* python -m pytest tests/ -v || print_warning ..., when tests/ exists
BackendTests ==
  /\ build.pc = "pytest"
  /\ \E tests \in BOOLEAN :
       IF tests
       THEN build' \in Warned(build, "pytest", "node")
       ELSE build' = [build EXCEPT !.pc = "node"]
  /\ buildFrame

\* deactivate, cd .., cd frontend-web, command -v node, npm ci
InstallFrontend ==
  /\ build.pc = "node"
  /\ \E node \in BOOLEAN :
       IF node
       THEN build' \in Command(build, "npm ci", <<>>, "lint")
       ELSE build' = Errexit(build, "node", <<>>, 1)
  /\ buildFrame

\* npm run lint || print_warning ...
Lint ==
  /\ build.pc = "lint"
  /\ build' \in Warned(build, "lint", "npm test")
  /\ buildFrame

\* if npm run test --passWithNoTests; then ... else print_warning ...
FrontendTests ==
  /\ build.pc = "npm test"
  /\ build' \in Warned(build, "npm test", "bundle")
  /\ buildFrame

\* npm run build
ProductionBundle ==
  /\ build.pc = "bundle"
  /\ build' \in Command(build, "bundle", <<>>, "mobile")
  /\ buildFrame

\* cd .., cd frontend-mobile, npm ci, expo build:web || print_warning ...
BuildMobile ==
  /\ build.pc = "mobile"
  /\ build' \in Command(build, "mobile", <<>>, "backend image")
  /\ buildFrame

\* docker build -f infra/docker/backend.Dockerfile ...
BackendImage ==
  /\ build.pc = "backend image"
  /\ build' \in Command(build, "backend image", <<>>, "frontend image")
  /\ buildFrame

\* docker build -f infra/docker/frontend.Dockerfile ...
FrontendImage ==
  /\ build.pc = "frontend image"
  /\ build' \in Command(build, "frontend image", <<>>, "config")
  /\ buildFrame

\* docker-compose config, certificates, .env.production, migrations
\* directory, documentation, security scans, clean-up
FinishBuild ==
  /\ build.pc = "config"
  /\ build' \in Command(build, "config", <<>>, "report")
  /\ buildFrame

\* build-report.txt and the closing messages
BuildReport ==
  /\ build.pc = "report"
  /\ build' \in {IF d.pc = "exited" THEN d ELSE Exit(d, 0) :
                   d \in Command(build, "report", <<>>, "report")}
  /\ buildFrame

BuildNext ==
  \/ CheckBuildTools
  \/ CreateDirectories
  \/ BuildBackend
  \/ BackendTests
  \/ InstallFrontend
  \/ Lint
  \/ FrontendTests
  \/ ProductionBundle
  \/ BuildMobile
  \/ BackendImage
  \/ FrontendImage
  \/ FinishBuild
  \/ BuildReport

BuildSpec == BuildInit /\ [][BuildNext]_vars

\* the build steps that test or lint
Checks == {"pytest", "lint", "npm test"}

\* C21: a failing backend test suite, frontend lint or frontend test suite
\* does not end the run: the run is still going after it, a run that ends
\* with status 0 has produced the web bundle and both images, and a run
\* that ends with another status had a command other than these fail
C21_ChecksOnlyWarn ==
  build # Idle =>
    /\ (build.log # <<>> /\ build.log[Len(build.log)].op \in Checks) =>
         build.pc # "exited"
    /\ (build.pc = "exited" /\ build.exit = 0) =>
         /\ Did(build, "bundle")
         /\ Did(build, "backend image")
         /\ Did(build, "frontend image")
    /\ (build.pc = "exited" /\ build.exit # 0) =>
         \E i \in DOMAIN build.log :
           ~build.log[i].ok /\ build.log[i].op \notin Checks

\* all three checks failed and the run ended well
C21_Witness ==
  /\ build # Idle
  /\ build.pc = "exited"
  /\ build.exit = 0
  /\ \A c \in Checks : Tried(build, c) /\ ~Did(build, c)
  /\ Did(build, "bundle")
  /\ Did(build, "backend image")
  /\ Did(build, "frontend image")

\* ------------------------------------------------------------------
\* Relational schema (supabase/migrations/20250712060530_sparkling_leaf.sql)
\* ------------------------------------------------------------------

\* rows a run may insert into the user table
MaxUsers == 2

\* rows a run may insert into the other tables together
MaxRows == 3

Tables ==
  {"users", "accounts", "transactions", "budgets", "goals",
   "chat_conversations", "chat_messages", "recurring_transactions",
   "bill_reminders", "financial_reports", "audit_logs", "user_sessions"}

Key(table, column, references, on_delete) ==
  [table |-> table, column |-> column, references |-> references,
   on_delete |-> on_delete]

\* the schema without the account key of recurring_transactions
ForeignKeys_noRecurringAccount ==
  {Key("accounts", "user_id", "users", "CASCADE"),
   Key("transactions", "account_id", "accounts", "CASCADE"),
   Key("budgets", "user_id", "users", "CASCADE"),
   Key("goals", "user_id", "users", "CASCADE"),
   Key("chat_conversations", "user_id", "users", "CASCADE"),
   Key("chat_messages", "conversation_id", "chat_conversations", "CASCADE"),
   Key("recurring_transactions", "user_id", "users", "CASCADE"),
   Key("bill_reminders", "user_id", "users", "CASCADE"),
   Key("financial_reports", "user_id", "users", "CASCADE"),
   Key("audit_logs", "user_id", "users", "SET NULL"),
   Key("user_sessions", "user_id", "users", "CASCADE")}

\* every FOREIGN KEY clause of the schema
ForeignKeys ==
  {Key("accounts", "user_id", "users", "CASCADE"),
   Key("transactions", "account_id", "accounts", "CASCADE"),
   Key("budgets", "user_id", "users", "CASCADE"),
   Key("goals", "user_id", "users", "CASCADE"),
   Key("chat_conversations", "user_id", "users", "CASCADE"),
   Key("chat_messages", "conversation_id", "chat_conversations", "CASCADE"),
   Key("recurring_transactions", "user_id", "users", "CASCADE"),
   Key("recurring_transactions", "account_id", "accounts", "CASCADE"),
   Key("bill_reminders", "user_id", "users", "CASCADE"),
   Key("financial_reports", "user_id", "users", "CASCADE"),
   Key("audit_logs", "user_id", "users", "SET NULL"),
   Key("user_sessions", "user_id", "users", "CASCADE")}

\* category ENUM(...) of transactions and recurring_transactions
Category ==
  {"salary", "freelance", "investment_income", "other_income",
   "food_dining", "shopping", "transportation", "entertainment",
   "bills_utilities", "healthcare", "education", "travel",
   "insurance", "taxes", "other_expense", "transfer_in", "transfer_out"}

Enum(table, column, values) ==
  [table |-> table, column |-> column, values |-> values]

\* the ENUM columns the model carries
EnumColumns ==
  {Enum("accounts", "account_type",
        {"checking", "savings", "credit_card", "investment", "loan"}),
   Enum("transactions", "transaction_type", {"income", "expense", "transfer"}),
   Enum("transactions", "category", Category),
   Enum("recurring_transactions", "category", Category)}

Ids(rows) == {r.id : r \in rows}

\* the row's key column is NULL (a nullable key) or names a row of the
\* referenced table
Refers(tables, k, row) ==
  IF k.on_delete = "SET NULL"
  THEN row[k.column] = Undefined \/ row[k.column][1] \in Ids(tables[k.references])
  ELSE row[k.column] \in Ids(tables[k.references])

\* the rows of k's table whose key names one of ids
Referencing(tables, k, ids) ==
  IF k.on_delete = "SET NULL"
  THEN {r \in tables[k.table] : r[k.column] # Undefined /\ r[k.column][1] \in ids}
  ELSE {r \in tables[k.table] : r[k.column] \in ids}

\* the storage layer accepts the row (strict SQL mode)
Accepted(tables, table, row) ==
  /\ \A k \in ForeignKeys : k.table = table => Refers(tables, k, row)
  /\ \A e \in EnumColumns : e.table = table => row[e.column] \in e.values

WithId(row, id) ==
  [c \in DOMAIN row \cup {"id"} |-> IF c = "id" THEN id ELSE row[c]]

RECURSIVE DeleteRows(_, _, _)
RECURSIVE OnDelete(_, _, _)

\* DELETE of the rows ids of table, with the referential actions it sets off
DeleteRows(tables, table, ids) ==
  OnDelete([tables EXCEPT ![table] = {r \in @ : r.id \notin ids}],
           {k \in ForeignKeys : k.references = table}, ids)

\* ON DELETE CASCADE / ON DELETE SET NULL of the keys that reference ids
OnDelete(tables, keys, ids) ==
  IF keys = {} THEN tables
  ELSE LET k == CHOOSE x \in keys : TRUE
           hit == Referencing(tables, k, ids)
           after == IF k.on_delete = "CASCADE"
                    THEN DeleteRows(tables, k.table, Ids(hit))
                    ELSE [tables EXCEPT ![k.table] =
                            {IF r \in hit THEN [r EXCEPT ![k.column] = Undefined] ELSE r :
                               r \in @}]
       IN  OnDelete(after, keys \ {k}, ids)

dbFrame == UNCHANGED <<authVars, nav, dash, deploy, test, build>>

EmptyDatabase ==
  [tables |-> [t \in Tables |-> {}],
   auto |-> [t \in Tables |-> 0],
   \* the last statement: its kind, whether it succeeded, the row deleted
   last |-> [op |-> "none", table |-> None, id |-> 0, ok |-> TRUE]]

\* INSERT INTO table: the row gets the next AUTO_INCREMENT id, or the
\* statement fails and the table is as before
Insert(table, row) ==
  /\ db' = IF Accepted(db.tables, table, row)
           THEN [db EXCEPT !.tables[table] = @ \cup {WithId(row, db.auto[table] + 1)},
                           !.auto[table] = @ + 1,
                           !.last = [op |-> "insert", table |-> None,
                                     id |-> 0, ok |-> TRUE]]
           ELSE [db EXCEPT !.last = [op |-> "insert", table |-> None,
                                     id |-> 0, ok |-> FALSE]]
  /\ dbFrame

\* DELETE FROM table WHERE id = ...
Delete(table, id) ==
  /\ id \in Ids(db.tables[table])
  /\ db' = [db EXCEPT !.tables = DeleteRows(@, table, {id}),
                      !.last = [op |-> "delete", table |-> table,
                                id |-> id, ok |-> TRUE]]
  /\ dbFrame

\* rows inserted so far into the tables other than users
Inserted(d) == SumOver(d.auto, Tables \ {"users"})

\* column values of the rows whose other columns the run does not vary
UserRow(is_active) == [is_active |-> is_active]

AccountRow(user_id, account_type, current_balance, is_active) ==
  [user_id |-> user_id, account_type |-> account_type,
   current_balance |-> current_balance, is_active |-> is_active]

TransactionRow(account_id, amount, transaction_type, category, transaction_date) ==
  [account_id |-> account_id, amount |-> amount,
   transaction_type |-> transaction_type, category |-> category,
   transaction_date |-> transaction_date]

\* the tables whose only key is user_id ... ON DELETE CASCADE
OwnedTables ==
  {"budgets", "goals", "chat_conversations", "bill_reminders",
   "financial_reports", "user_sessions"}

OwnedRow(table, user_id) ==
  IF table = "budgets"
  THEN [user_id |-> user_id, category |-> "food_dining"]
  ELSE [user_id |-> user_id]

\* ---- rows come and go; the referential actions do the rest
CascadeInit ==
  /\ AuthInit
  /\ storage = [accessToken |-> NoToken, refreshToken |-> NoToken]
  /\ nav = Idle /\ dash = Idle /\ deploy = Idle /\ test = Idle /\ build = Idle
  /\ db = EmptyDatabase

InsertUser ==
  /\ db.auto["users"] < MaxUsers
  /\ Insert("users", UserRow(TRUE))

InsertAccount ==
  /\ Inserted(db) < MaxRows
  /\ \E user_id \in 1..MaxUsers :
       Insert("accounts", AccountRow(user_id, "checking", 0, TRUE))

InsertTransaction ==
  /\ Inserted(db) < MaxRows
  /\ \E account_id \in 1..MaxRows :
       Insert("transactions",
              TransactionRow(account_id, 0, "expense", "food_dining", <<2025, 1, 5>>))

InsertRecurringTransaction ==
  /\ Inserted(db) < MaxRows
  /\ \E user_id \in 1..MaxUsers, account_id \in 1..MaxRows :
       Insert("recurring_transactions",
              [user_id |-> user_id, account_id |-> account_id,
               category |-> "food_dining"])

InsertOwned ==
  /\ Inserted(db) < MaxRows
  /\ \E table \in OwnedTables, user_id \in 1..MaxUsers :
       Insert(table, OwnedRow(table, user_id))

InsertChatMessage ==
  /\ Inserted(db) < MaxRows
  /\ \E conversation_id \in 1..MaxRows :
       Insert("chat_messages", [conversation_id |-> conversation_id])

InsertAuditLog ==
  /\ Inserted(db) < MaxRows
  /\ \E user_id \in {Undefined} \cup {Some(u) : u \in 1..MaxUsers} :
       Insert("audit_logs", [user_id |-> user_id])

DeleteUser == \E id \in 1..MaxUsers : Delete("users", id)

DeleteAccount == \E id \in 1..MaxRows : Delete("accounts", id)

CascadeNext ==
  \/ InsertUser
  \/ InsertAccount
  \/ InsertTransaction
  \/ InsertRecurringTransaction
  \/ InsertOwned
  \/ InsertChatMessage
  \/ InsertAuditLog
  \/ DeleteUser
  \/ DeleteAccount

CascadeSpec == CascadeInit /\ [][CascadeNext]_vars

\* the rows of the table that belong to user u
OfUser(tables, table, u) ==
  IF table = "transactions"
  THEN {r \in tables[table] :
          \E a \in tables["accounts"] : a.id = r.account_id /\ a.user_id = u}
  ELSE IF table = "chat_messages"
  THEN {r \in tables[table] :
          \E c \in tables["chat_conversations"] :
            c.id = r.conversation_id /\ c.user_id = u}
  ELSE {r \in tables[table] : r.user_id = u}

\* this step deleted the row id of the table
Deletes(table, id) ==
  /\ db # Idle
  /\ id \in Ids(db.tables[table])
  /\ db'.last = [op |-> "delete", table |-> table, id |-> id, ok |-> TRUE]

\* C22: deleting a user removes the user, every account, transaction,
\* budget, goal, conversation and message, recurring transaction, bill
\* reminder, report and session of that user and no row of another user;
\* the audit log keeps all its rows, those of the user with a null user
C22_UserCascade ==
  [][\A u \in 1..MaxUsers :
       Deletes("users", u) =>
         /\ Ids(db'.tables["users"]) = Ids(db.tables["users"]) \ {u}
         /\ \A table \in Tables \ {"users", "audit_logs"} :
              db'.tables[table] = db.tables[table] \ OfUser(db.tables, table, u)
         /\ db'.tables["audit_logs"] =
              {IF r.user_id = Some(u) THEN [r EXCEPT !.user_id = Undefined] ELSE r :
                 r \in db.tables["audit_logs"]}]_vars

\* C23: deleting an account removes it, every transaction and every
\* recurring transaction that references it, and nothing else: the users,
\* the other accounts and the rows that reference them are as before
C23_AccountCascade ==
  [][\A a \in 1..MaxRows :
       Deletes("accounts", a) =>
         /\ db'.tables["accounts"] = {r \in db.tables["accounts"] : r.id # a}
         /\ \A table \in {"transactions", "recurring_transactions"} :
              db'.tables[table] = {r \in db.tables[table] : r.account_id # a}
         /\ \A table \in Tables \ {"accounts", "transactions", "recurring_transactions"} :
              db'.tables[table] = db.tables[table]]_vars

\* an account was deleted with a recurring transaction on it, and another
\* account is still there
C23_Witness ==
  /\ db # Idle
  /\ db.last = [op |-> "delete", table |-> "accounts", id |-> 1, ok |-> TRUE]
  /\ db.auto["accounts"] = 2
  /\ db.auto["recurring_transactions"] = 1
  /\ db.tables["recurring_transactions"] = {}
  /\ Ids(db.tables["accounts"]) = {2}
  /\ db.tables["users"] # {}

\* ---------------------------------------------------------------------
\* writes of the category column

\* UPDATE table SET column = value WHERE id = ...: the constraints of the
\* table are checked on the new row, a rejected statement changes nothing
Update(table, id, column, value) ==
  /\ \E row \in db.tables[table] :
       /\ row.id = id
       /\ LET new == [row EXCEPT ![column] = value]
          IN db' = IF Accepted(db.tables, table, new)
                   THEN [db EXCEPT !.tables[table] = (@ \ {row}) \cup {new},
                                   !.last = [op |-> "update", table |-> None,
                                             id |-> 0, ok |-> TRUE]]
                   ELSE [db EXCEPT !.last = [op |-> "update", table |-> None,
                                             id |-> 0, ok |-> FALSE]]
  /\ dbFrame

\* the tables with a category column
CategoryTables == {"transactions", "recurring_transactions", "budgets"}

\* values a client sends for category: two of the enumeration, one outside
CategoryInputs == {"food_dining", "salary", "groceries"}

CategoryRow(table, category) ==
  IF table = "transactions"
  THEN TransactionRow(1, 0, "expense", category, <<2025, 1, 5>>)
  ELSE IF table = "recurring_transactions"
  THEN [user_id |-> 1, account_id |-> 1, category |-> category]
  ELSE [user_id |-> 1, category |-> category]

\* one user with one account, no other rows
EnumInit ==
  /\ AuthInit
  /\ storage = [accessToken |-> NoToken, refreshToken |-> NoToken]
  /\ nav = Idle /\ dash = Idle /\ deploy = Idle /\ test = Idle /\ build = Idle
  /\ db = [EmptyDatabase EXCEPT
             !.tables["users"] = {WithId(UserRow(TRUE), 1)},
             !.auto["users"] = 1,
             !.tables["accounts"] = {WithId(AccountRow(1, "checking", 0, TRUE), 1)},
             !.auto["accounts"] = 1]

InsertCategory ==
  /\ Inserted(db) < MaxRows
  /\ \E table \in CategoryTables, category \in CategoryInputs :
       Insert(table, CategoryRow(table, category))

UpdateCategory ==
  \E table \in CategoryTables, id \in 1..MaxRows, category \in CategoryInputs :
    Update(table, id, "category", category)

EnumNext ==
  \/ InsertCategory
  \/ UpdateCategory

EnumSpec == EnumInit /\ [][EnumNext]_vars

\* C24: after any sequence of writes the category of every transaction,
\* recurring transaction and budget row is one of the 17 values of the
\* category enumeration
C24_CategoryClosed ==
  db # Idle =>
    \A table \in CategoryTables :
      \A row \in db.tables[table] : row.category \in Category

\* what the schema does enforce: the same for transactions and recurring
\* transactions only
C24_EnumColumnsClosed ==
  db # Idle =>
    \A table \in {"transactions", "recurring_transactions"} :
      \A row \in db.tables[table] : row.category \in Category

\* ---------------------------------------------------------------------
\* VIEW user_account_summary

MaxSummaryAccounts == 2    \* accounts inserted before the view is read

AccountTypes == {"checking", "savings", "credit_card", "investment", "loan"}

\* ON u.id = a.user_id AND a.is_active = TRUE
SummaryOn(u, a) == u.id = a.user_id /\ a.is_active = TRUE

\* an inner join: users without a matching account have no row
LEFT_JOIN_inner(users, accounts) ==
  {<<q[1], Some(q[2])>> : q \in {p \in users \X accounts : SummaryOn(p[1], p[2])}}

\* users u LEFT JOIN accounts a ON ...: a user without a matching account
\* is joined to an all-NULL account
LEFT_JOIN(users, accounts) ==
  {<<q[1], Some(q[2])>> : q \in {p \in users \X accounts : SummaryOn(p[1], p[2])}}
    \cup {<<u, Undefined>> : u \in {v \in users : \A a \in accounts : ~SummaryOn(v, a)}}

\* SUM(CASE WHEN a.account_type IN types THEN a.current_balance ELSE 0 END)
\* over the joined rows of one group
SumCase(group, types) ==
  SumOver([p \in group |->
             IF p[2] # Undefined /\ p[2][1].account_type \in types
             THEN p[2][1].current_balance ELSE 0],
          group)

\* the rows of the view
user_account_summary(tables) ==
  LET joined == LEFT_JOIN(tables["users"], tables["accounts"])
      where == {p \in joined : p[1].is_active = TRUE}
      \* GROUP BY u.id, u.email, u.first_name, u.last_name: u.id is the key
      Group(user_id) == {p \in where : p[1].id = user_id}
  IN {[user_id |-> user_id,
       \* COUNT(a.id) counts the rows whose a.id is not NULL
       total_accounts |-> Cardinality({p \in Group(user_id) : p[2] # Undefined}),
       total_cash |-> SumCase(Group(user_id), {"checking", "savings"}),
       total_credit_debt |-> SumCase(Group(user_id), {"credit_card"}),
       total_investments |-> SumCase(Group(user_id), {"investment"})] :
        user_id \in {p[1].id : p \in where}}

\* the users exist, each active or not; there is no account yet
SummaryInit ==
  /\ AuthInit
  /\ storage = [accessToken |-> NoToken, refreshToken |-> NoToken]
  /\ nav = Idle /\ dash = Idle /\ deploy = Idle /\ test = Idle /\ build = Idle
  /\ \E is_active \in [1..MaxUsers -> BOOLEAN] :
       db = [EmptyDatabase EXCEPT
               !.tables["users"] = {WithId(UserRow(is_active[u]), u) : u \in 1..MaxUsers},
               !.auto["users"] = MaxUsers]

\* the n-th account holds 2^(n-1) * 100.00, so that a total names the
\* accounts it adds up
NextBalance(d) == (2 ^ d.auto["accounts"]) * 10000

InsertSummaryAccount ==
  /\ db.auto["accounts"] < MaxSummaryAccounts
  /\ \E user_id \in 1..MaxUsers, account_type \in AccountTypes, is_active \in BOOLEAN :
       Insert("accounts", AccountRow(user_id, account_type, NextBalance(db), is_active))

\* UPDATE accounts SET is_active = ... WHERE id = ...
SetAccountActive ==
  \E id \in 1..MaxSummaryAccounts, is_active \in BOOLEAN :
    /\ \E a \in db.tables["accounts"] : a.id = id /\ a.is_active # is_active
    /\ Update("accounts", id, "is_active", is_active)

SummaryNext ==
  \/ InsertSummaryAccount
  \/ SetAccountActive

SummarySpec == SummaryInit /\ [][SummaryNext]_vars

\* the active accounts of user u whose type is one of types
ActiveAccounts(u, types) ==
  {a \in db.tables["accounts"] :
     a.user_id = u /\ a.is_active /\ a.account_type \in types}

Total(accounts) == SumOver([a \in accounts |-> a.current_balance], accounts)

\* C25: the summary view has exactly one row for every active user and none
\* for an inactive one; the row counts the user's active accounts and adds
\* up the balances of the active checking and savings accounts (cash), of
\* the active credit cards (credit debt) and of the active investment
\* accounts (investments); inactive accounts and loans add nothing
C25_AccountSummary ==
  db # Idle =>
    LET view == user_account_summary(db.tables)
    IN /\ \A r \in view : r.user_id \in Ids(db.tables["users"])
       /\ \A u \in db.tables["users"] :
            LET rows == {r \in view : r.user_id = u.id}
            IN IF u.is_active
               THEN /\ Cardinality(rows) = 1
                    /\ \A r \in rows :
                         /\ r.total_accounts =
                              Cardinality(ActiveAccounts(u.id, AccountTypes))
                         /\ r.total_cash =
                              Total(ActiveAccounts(u.id, {"checking", "savings"}))
                         /\ r.total_credit_debt =
                              Total(ActiveAccounts(u.id, {"credit_card"}))
                         /\ r.total_investments =
                              Total(ActiveAccounts(u.id, {"investment"}))
               ELSE rows = {}

\* user 1 is active with an active checking account and a closed savings
\* account, user 2 is inactive: the view is the one row of user 1, with the
\* checking balance as cash
C25_Witness ==
  /\ db # Idle
  /\ db.last.op = "update"
  /\ \E u \in db.tables["users"] : u.id = 1 /\ u.is_active
  /\ \E u \in db.tables["users"] : u.id = 2 /\ ~u.is_active
  /\ \E a \in db.tables["accounts"] :
       a.user_id = 1 /\ a.account_type = "savings" /\ ~a.is_active
  /\ user_account_summary(db.tables) =
       {[user_id |-> 1, total_accounts |-> 1, total_cash |-> 10000,
         total_credit_debt |-> 0, total_investments |-> 0]}

\* ---------------------------------------------------------------------
\* VIEW monthly_spending_by_category

MaxTransactions == 2    \* transactions inserted before the view is read

TransactionTypes == {"income", "expense", "transfer"}

\* transaction_date values: two days of one month, and the same month of
\* the next year
Dates == {<<2025, 1, 5>>, <<2025, 1, 20>>, <<2026, 1, 5>>}

\* category values of the transactions inserted
SpendingCategories == {"food_dining", "salary"}

\* DATE_FORMAT(transaction_date, '%Y-%m'): year and month, the day dropped
DATE_FORMAT(date) == <<date[1], date[2]>>

\* no WHERE clause
SpendingWhere_all(t) == TRUE

\* WHERE t.transaction_type = 'expense'
SpendingWhere(t) == t.transaction_type = "expense"

\* AVG over a DECIMAL(15, 2) column: the quotient with four more decimals,
\* rounded; amounts are in 1/100 and the average in 1/1000000
AVG(total, count) == (2 * total * 10000 + count) \div (2 * count)

\* the rows of the view
monthly_spending_by_category(tables) ==
  LET \* transactions t JOIN accounts a ON t.account_id = a.id
      joined == {p \in tables["transactions"] \X tables["accounts"] :
                   p[1].account_id = p[2].id}
      where == {p \in joined : SpendingWhere(p[1])}
      KeyOf(p) == <<p[2].user_id, p[1].category, DATE_FORMAT(p[1].transaction_date)>>
      Group(k) == {p \in where : KeyOf(p) = k}
      SUM(k) == SumOver([p \in Group(k) |-> p[1].amount], Group(k))
      COUNT(k) == Cardinality(Group(k))
  IN {[user_id |-> k[1], category |-> k[2], month |-> k[3],
       total_amount |-> SUM(k),
       transaction_count |-> COUNT(k),
       avg_amount |-> AVG(SUM(k), COUNT(k))] : k \in {KeyOf(p) : p \in where}}

\* user 1 has accounts 1 and 2, user 2 has account 3; no transaction yet
SpendingInit ==
  /\ AuthInit
  /\ storage = [accessToken |-> NoToken, refreshToken |-> NoToken]
  /\ nav = Idle /\ dash = Idle /\ deploy = Idle /\ test = Idle /\ build = Idle
  /\ db = [EmptyDatabase EXCEPT
             !.tables["users"] = {WithId(UserRow(TRUE), 1), WithId(UserRow(TRUE), 2)},
             !.auto["users"] = 2,
             !.tables["accounts"] =
               {WithId(AccountRow(1, "checking", 0, TRUE), 1),
                WithId(AccountRow(1, "credit_card", 0, TRUE), 2),
                WithId(AccountRow(2, "checking", 0, TRUE), 3)},
             !.auto["accounts"] = 3]

\* the n-th transaction is of 2^(n-1) * 100.00, so that a total names the
\* transactions it adds up
NextAmount(d) == (2 ^ d.auto["transactions"]) * 10000

InsertSpending ==
  /\ db.auto["transactions"] < MaxTransactions
  /\ \E a \in db.tables["accounts"], transaction_type \in TransactionTypes,
        category \in SpendingCategories, transaction_date \in Dates :
       Insert("transactions",
              TransactionRow(a.id, NextAmount(db), transaction_type, category,
                             transaction_date))

\* DELETE FROM transactions WHERE id = ...
DeleteSpending == \E id \in 1..MaxTransactions : Delete("transactions", id)

SpendingNext ==
  \/ InsertSpending
  \/ DeleteSpending

SpendingSpec == SpendingInit /\ [][SpendingNext]_vars

\* the expense transactions on the accounts of user u, of category c, in
\* month m of year y
ExpensesOf(u, c, y, m) ==
  {t \in db.tables["transactions"] :
     /\ t.transaction_type = "expense"
     /\ t.category = c
     /\ t.transaction_date[1] = y /\ t.transaction_date[2] = m
     /\ \E a \in db.tables["accounts"] : a.id = t.account_id /\ a.user_id = u}

\* C26: the spending view has one row for every user, category and calendar
\* month with at least one expense transaction and no other row; the row
\* holds the sum, the number and the average of the amounts of exactly
\* those expense transactions, whatever income and transfer transactions
\* there are
C26_MonthlySpending ==
  db # Idle =>
    LET view == monthly_spending_by_category(db.tables)
    IN /\ \A r \in view :
            ExpensesOf(r.user_id, r.category, r.month[1], r.month[2]) # {}
       /\ \A u \in Ids(db.tables["users"]), c \in Category, d \in Dates :
            LET expenses == ExpensesOf(u, c, d[1], d[2])
                rows == {r \in view : /\ r.user_id = u /\ r.category = c
                                      /\ r.month = <<d[1], d[2]>>}
                total == SumOver([t \in expenses |-> t.amount], expenses)
            IN expenses # {} =>
                 /\ Cardinality(rows) = 1
                 /\ \A r \in rows :
                      /\ r.total_amount = total
                      /\ r.transaction_count = Cardinality(expenses)
                      \* the average, to the sixth decimal
                      /\ 2 * r.avg_amount * r.transaction_count - 2 * total * 10000
                           \in -r.transaction_count .. r.transaction_count

\* user 1 spent 100.00 and 200.00 on food in January 2025, from two accounts
\* on two days: one row, of 300.00 in two transactions, 150.00 on average
C26_Witness ==
  /\ db # Idle
  /\ {t.account_id : t \in db.tables["transactions"]} = {1, 2}
  /\ {t.transaction_date : t \in db.tables["transactions"]} =
       {<<2025, 1, 5>>, <<2025, 1, 20>>}
  /\ monthly_spending_by_category(db.tables) =
       {[user_id |-> 1, category |-> "food_dining", month |-> <<2025, 1>>,
         total_amount |-> 30000, transaction_count |-> 2,
         avg_amount |-> 150000000]}

\* ---------------------------------------------------------------------
\* the provider's tokens and its authenticated flag

\* C27: whenever the state is authenticated, local storage holds an access
\* token
C27_AuthenticatedHasToken ==
  state.isAuthenticated => storage.accessToken # NoToken

\* C28: once LOGOUT is the action dispatched last (so no login or register
\* has started since), no step makes the state authenticated: a login or a
\* startup fetch that was in flight cannot re-authenticate
C28_LogoutSticks ==
  [][lastAction = "LOGOUT" => ~state'.isAuthenticated]_vars

\* C29: when a login attempt ends with LOGIN_FAILURE because the backend
\* login succeeded and the fetch of the current user failed, local storage
\* holds neither an access token nor a refresh token
C29_FailedLoginLeavesNoToken ==
  [][(/\ Len(calls') < Len(calls)
      /\ lastAction' = "LOGIN_FAILURE"
      /\ settled'.outcome = "userFailed")
       => (storage'.accessToken = NoToken /\ storage'.refreshToken = NoToken)]_vars

\* ---------------------------------------------------------------------
\* the pass counters of the test script

\* the steps that record integration_api_health, integration_user_registration,
\* integration_frontend_access and backend_integration_tests
IntegrationSteps ==
  {"backend_integration", "api_health", "registration", "frontend_access"}

\* C30: a test of the integration category that passes is counted in
\* INTEGRATION_TESTS_PASSED and in no other counter: the steps that record
\* the integration tests leave the backend and the frontend counter as
\* they are, and every call of record_test adds one to TOTAL_TESTS
C30_IntegrationCounted ==
  [][(test # Idle /\ test.pc \in IntegrationSteps /\ test'.pc # "exited")
       => /\ test'.TOTAL_TESTS = test.TOTAL_TESTS + 1
          /\ test'.BACKEND_TESTS_PASSED = test.BACKEND_TESTS_PASSED
          /\ test'.FRONTEND_TESTS_PASSED = test.FRONTEND_TESTS_PASSED]_vars

====
